---- MODULE Spec2Model ----
(***************************************************************************)
(* A state-machine model of the beating-heart page.                        *)
(*                                                                         *)
(* The repository holds two versions of the page script:                   *)
(*   src/unnamed/part_001   the current script (loading/error UI, audio,   *)
(*                          debounced resize, cleanup, service worker)     *)
(*   src/unnamed/part_002   the earlier script (no audio, no retry, no     *)
(*                          visibility check, no debounce, no cleanup)     *)
(* The variable `script` says which of the two runs on the page; every     *)
(* handler is translated from the text of the script that `script` names.  *)
(*                                                                         *)
(* One display refresh is modelled as BeginFrame followed by one step per  *)
(* animation-frame callback that was scheduled when the refresh began      *)
(* (Animate for a requestAnimationFrame callback of startAnimation,        *)
(* AnimationLoopCallback for the callback given to setAnimationLoop).      *)
(* No other handler runs between the callbacks of one refresh.             *)
(***************************************************************************)
EXTENDS Integers, FiniteSets, Sequences, Bags, TLC

VARIABLES
    script,          \* "part_001" | "part_002": the script the page runs
    reducedMotion,   \* CONFIG.REDUCED_MOTION (part_001 only)
    swSupported,     \* "serviceWorker" in navigator
    phase,           \* "boot" | "ready" | "failed" | "nowebgl"
    now,             \* the page clock, ms
    lastRenderTime,  \* this.lastRenderTime
    isAnimating,     \* this.isAnimating
    heart,           \* this.heart is a mesh (truthy)
    rafQueue,        \* animate callbacks requested for the next refresh
    rafRun,          \* animate callbacks still to run in this refresh
    animLoop,        \* a callback is installed by renderer.setAnimationLoop
    loopRun,         \* that callback is still to run in this refresh
    passes,          \* render passes begun in the current refresh
    hidden,          \* document.hidden
    loadsInFlight,   \* loader.load calls not yet answered
    loadCalls,       \* loadHeartModel calls so far
    spikes,          \* this.spikes: 0 = [], k = the set made by the k-th initParticles
    initRuns,        \* initParticles calls so far
    errorShown,      \* #error-display is visible
    errorAction,     \* what #error-retry does: "none" (button hidden) | "retry" | "reload"
    loadingFailed,   \* part_002 showError: #loading holds the failure text
    audio,           \* this.audio: "none" (null) | "paused" | "playing"
    audioLoop,       \* this.audio.loop
    plays,           \* the audio.play() promises not yet settled, a bag: the
                     \* call that made each and the prompt it will remove
    audioNotices,    \* the "Music file not found" notifications in the page
    audioPrompts,    \* the "Music Ready!" prompts in the page, by number
    created,         \* GPU resources created so far
    disposed,        \* GPU resources disposed so far
    timeline,        \* the gsap beat timeline is running
    timers,          \* the pending setTimeout callbacks of hideLoading
                     \* ("hideLoading"), Utils.updateAriaLive ("ariaLive") and
                     \* showLoopStatus ("loopStatus"), a bag
    cleaned,         \* cleanup() has run
    swState,         \* service worker registration: "none" | "pending" | "ok" | "failed"
    diag,            \* the last step: the error outcome it handled, its console
                     \* entries, and the key onKeyDown was called with
    lastSpace,       \* history: the last Space press: "none" | "on" | "off" (it stopped
                     \* the animation of a loaded heart) | "offEarly" (no heart yet)
    renderFailed,    \* history: render() has thrown on this page
    resizeTimer,     \* the debounce closure's timeout: -1 = none, else its due time
    lastResize,      \* history: time of the latest resize event, -1 = none
    resizeRuns,      \* history: onWindowResize calls since the latest burst began
    lastRunAt,       \* history: time of the latest onWindowResize call, -1 = none
    world,           \* what the page is given: the mesh of the model file, the
                     \* draws of sampler.sample and Math.random, the noise seed
    win,             \* window.innerWidth, innerHeight and devicePixelRatio
    viewport,        \* camera.aspect, the renderer's size and pixel ratio
    beat,            \* this.beat.a, in twentieths
    originHeart,     \* this.originHeart: one vector per mesh vertex
    vs,              \* heart.geometry.attributes.position.array, per vertex
    sparks,          \* the SparkPoints of this.spikes: pos, rand, color, one, two
    positions,       \* this.positions (flat)
    colors,          \* this.colors (flat)
    submitted,       \* the buffers last given to geometry.setAttribute
    shown,           \* history: per spark, which layers the last updateParticles appended
    oob,             \* history: a write fell outside this.positions or this.colors
    memo,            \* history: per beat value, the near/far positions first computed for
                     \* it and the time of that pass
    beatRead,        \* history: beat.a as read by the last updateParticles and by the
                     \* last updateHeartGeometry, -1 = never
    heartKey,        \* history: beat and time of the last updateHeartGeometry,
                     \* then those of the one before it; -1 = none
    controlsHidden,  \* musicControls.hidden
    controlsOpacity, \* musicControls.style.opacity: "css" (never set) | "0" | "0.8"
    hideTimers,      \* the pending hide timeouts, oldest first: the time each is due
    ariaControls,    \* the last announcement of toggleControlsVisibility
    lastControls,    \* history: the last action on the overlay: "none" | "show" | "hide"
    workerState,     \* sw.js: "parsed" | "installing" | "installed" | "activating" |
                     \* "activated" | "redundant"
    installWaits,    \* the promise install's waitUntil waits for: "none" | "open"
                     \* (caches.open) | "addAll" (cache.addAll)
    caches,          \* the origin's CacheStorage, in creation order: name and entries
    deleting,        \* the cache names activate has logged and called caches.delete
                     \* for, the delete still pending
    deleted,         \* the cache names whose caches.delete has settled
    fetches,         \* history: the number of fetch events delivered
    netRequests,     \* history: the number of fetch() calls of the fetch handler
    pending,         \* the fetch events not yet answered, a bag: the request of
                     \* each and what it waits for, caches.match or fetch()
    response         \* the last answer given to a fetch event

vars == <<script, reducedMotion, swSupported, phase, now, lastRenderTime, isAnimating, heart,
          rafQueue, rafRun, animLoop, loopRun, passes, hidden, loadsInFlight,
          loadCalls, spikes, initRuns, errorShown, errorAction, loadingFailed,
          audio, audioLoop, plays, audioNotices, audioPrompts, created,
          disposed, timeline,
          timers, cleaned, swState, diag, lastSpace, renderFailed,
          resizeTimer, lastResize, resizeRuns, lastRunAt, world, win,
          viewport, beat, originHeart, vs, sparks, positions, colors,
          submitted, shown, oob, memo, beatRead, heartKey, controlsHidden,
          controlsOpacity, hideTimers, ariaControls, lastControls,
          workerState, installWaits, caches, deleting, deleted, fetches,
          netRequests,
          pending, response>>

animVars   == <<now, lastRenderTime, isAnimating, rafQueue, rafRun, animLoop,
                loopRun, passes>>
loadVars   == <<heart, loadsInFlight, loadCalls, spikes, initRuns>>
errorVars  == <<errorShown, errorAction, loadingFailed>>
audioVars  == <<audio, audioLoop, plays, audioNotices, audioPrompts>>
gpuVars    == <<created, disposed, timeline>>
resizeVars == <<resizeTimer, lastResize, resizeRuns, lastRunAt>>
histVars   == <<lastSpace, renderFailed>>
fixedVars  == <<script, reducedMotion, swSupported>>
overlayVars == <<controlsHidden, controlsOpacity, hideTimers, ariaControls,
                 lastControls>>
workerVars == <<workerState, installWaits, caches, deleting, deleted, fetches,
               netRequests, pending, response>>
\* What a render pass writes.
renderVars == <<beat, vs, sparks, positions, colors, submitted, shown, oob,
                memo, beatRead, heartKey>>
\* What a render pass leaves alone: the page's inputs, the window, the camera
\* and renderer, the mesh origin.
sceneVars  == <<world, win, viewport, originHeart>>
frameVars  == <<sceneVars, renderVars>>

(***************************************************************************)
(* Program constants and model bounds.                                     *)
(***************************************************************************)
FRAME_SKIP_THRESHOLD == 16
RESIZE_DEBOUNCE_WAIT == 100
\* The delay of the overlay's hide timeout, ms.
HIDE_DELAY == 300

MaxTime == 34
MaxLoadCalls == 3
MaxResizeTime == 300
MaxResizeRuns == 3
MaxOverlayTime == 500
MaxHideTimers == 2
\* Announcements awaiting removal above which the page is not hidden or
\* shown again.
MaxAriaLive == 5
\* Audio error events, and loop notifications awaiting removal.
MaxAudioNotices == 2
MaxLoopNotices == 1
\* Unsettled play() promises above which no key, click or "ended" event
\* starts another.
MaxPlays == 2

\* Gaps between display refreshes: a 120 Hz and a 60 Hz display.
FrameGaps == {8, 17}
\* Gaps between the moments the resize machine looks at the clock.
ResizeGaps == {40, 60, 100}
\* Gaps between the moments the overlay machine looks at the clock.
OverlayGaps == {100, 200}

Scripts == {"part_001", "part_002"}
IsMain == script = "part_001"

NoDiag == [err |-> "none", logs |-> 0, key |-> "none"]
Diag(e, n) == [err |-> e, logs |-> n, key |-> "none"]
\* The step was a call of onKeyDown with the key k.
KeyDown(k) == [err |-> "none", logs |-> 0, key |-> k]

\* sw.js: the cache of this version and the urls install puts into it.
CACHE_NAME == "heart-animation-v1"
urlsToCache ==
    {"/", "/index.html", "/assets/css/style.css", "/assets/js/three.min.js",
     "/assets/js/main.js", "/assets/js/mesh-surface-sampler.js",
     "/assets/js/trackball-controls.js", "/assets/js/simplex-noise.js",
     "/assets/js/obj-loader.js", "/assets/js/gsap.min.js",
     "/assets/music/she-says.mp3"}

\* No fetch event has been answered.
NoResponse == [from |-> "none", request |-> <<>>, body |-> ""]

\* No display refresh is in progress: event handlers run only then.
Idle == rafRun = 0 /\ ~loopRun

\* n copies of x, as a bag.
Copies(x, n) == IF n = 0 THEN EmptyBag ELSE [k \in {x} |-> n]

\* The timeouts n calls of Utils.updateAriaLive leave pending: each call
\* appends a live region and removes it from a 1000 ms timeout.  part_002
\* announces nothing.
updateAriaLive(n) == Copies("ariaLive", IF script = "part_001" THEN n ELSE 0)

(***************************************************************************)
(* Numbers.  The scripts compute with floating-point numbers; the model    *)
(* computes the same products exactly, over fixed denominators:            *)
(*   coordinates, jitter (rand), MAX_Z * RATE_Z       thousandths          *)
(*   beat.a                                           twentieths           *)
(*   noise + 1.5, noise2 + 1, the mesh noise + 1      sixths               *)
(*   the scalars given to multiplyScalar              1 / SCALAR_DEN       *)
(*   coordinates after multiplyScalar (one, two, vs,  thousandths over     *)
(*   positions)                                       SCALAR_DEN           *)
(***************************************************************************)
COORD_DEN == 1000
BEAT_DEN == 20
NOISE_DEN == 6
SCALAR_DEN == COORD_DEN * BEAT_DEN * NOISE_DEN

\* CONFIG.PARTICLE_COUNT is 10000; the model runs the same loops over fewer
\* sparks.
PARTICLE_COUNT == 2
\* A capacity of three entries per spark: too small for two layers.
PARTICLE_COUNT_3 == PARTICLE_COUNT * 3
PARTICLE_COUNT_6 == PARTICLE_COUNT * 6

\* CONFIG.MAX_Z * CONFIG.RATE_Z = 0.115, in thousandths.
MAX_Z_RATE_Z == 115
\* CONFIG.NOISE_SCALE * CONFIG.NOISE_AMPLITUDE = 0.225, in thousandths.
NOISE_SCALE_AMPLITUDE == 225
\* CONFIG.NOISE_AMPLITUDE = 0.15, in thousandths.
NOISE_AMPLITUDE == 150
\* CONFIG.BEAT_MAX_VALUE = 0.5, in twentieths.
BEAT_MAX_VALUE == 10
\* CONFIG.PARTICLE_RANDOM_FACTOR = 0.03, in thousandths: rand < 0.03.
PARTICLE_RANDOM_FACTOR == 30
\* Math.min(window.devicePixelRatio, 2)
MAX_PIXEL_RATIO == 2

\* Values of beat.a the tween passes through, among them its two ends.
BeatValues == {0, 3, BEAT_MAX_VALUE}
\* setupAnimation with reduced motion: CONFIG.BEAT_MAX_VALUE * 0.3.
ReducedMotionBeat == (BEAT_MAX_VALUE * 3) \div 10

Min(a, b) == IF a <= b THEN a ELSE b

\* Vector3.multiplyScalar
Scale(v, k) == <<v[1] * k, v[2] * k, v[3] * k>>

\* this.one = null
Null == <<>>

\* CONFIG.COLORS as THREE.Color components, in 255ths.
Palette ==
    << <<255, 212, 238>>, <<255, 119, 252>>, <<255, 119, 174>>,
       <<255, 23, 117>> >>

(***************************************************************************)
(* simplex.noise4D: a function of its four arguments, fixed by the seed    *)
(* the SimplexNoise instance drew when it was made.  Its value lies in     *)
(* [-1, 1]; the model's stand-in returns it in thirds.  The arguments are  *)
(* passed in units of 0.0005: a coordinate times 1 is 2 units per          *)
(* thousandth, times NOISE_SCALE (1.5) 3 units, times NOISE_FREQUENCY      *)
(* (500) 1000 units; 0.1 is 200 units, 1 is 2000, time * 0.0005 is `time`. *)
(***************************************************************************)
Noise4D(seed, a) == ((seed + 3 * a[1] + 5 * a[2] + 7 * a[3] + 11 * a[4]) % 7) - 3

\* A variant of NearNoiseW that passes the frame time as noise4D's fourth
\* argument, as updateHeartGeometry does.
NearNoiseW_time(time) == time

\* The fourth argument of SparkPoint.update's first noise4D call: 0.1.
NearNoiseW(time) == 200

\* The fourth argument of SparkPoint.update's second noise4D call: 1.
FarNoiseW(time) == 2000

\* noise = noise4D(pos.x * 1, pos.y * 1, pos.z * 1, 0.1) + 1.5, in sixths
SparkNoise(seed, pos, time) ==
    2 * Noise4D(seed, <<2 * pos[1], 2 * pos[2], 2 * pos[3], NearNoiseW(time)>>) + 9

\* noise2 = noise4D(pos * NOISE_FREQUENCY, 1) + 1, in sixths
SparkNoise2(seed, pos, time) ==
    2 * Noise4D(seed, <<1000 * pos[1], 1000 * pos[2], 1000 * pos[3],
                        FarNoiseW(time)>>) + 6

\* noise = noise4D(origin * NOISE_SCALE, time * 0.0005) + 1, in sixths
HeartNoise(seed, v, time) ==
    2 * Noise4D(seed, <<3 * v[1], 3 * v[2], 3 * v[3], time>>) + 6

\* The factor SparkPoint.update multiplies noise and beat.a by:
\* NOISE_SCALE_AMPLITUDE in part_001, CONFIG.NOISE_AMPLITUDE in part_002.
SparkAmplitude == IF IsMain THEN NOISE_SCALE_AMPLITUDE ELSE NOISE_AMPLITUDE

\* 1.01 + noise * amplitude * beat.a
NearScalar(noise, b) ==
    101 * (SCALAR_DEN \div 100) + noise * SparkAmplitude * b

\* 1 + noise2 * (beat.a + 0.3) - beat.a * 1.2
FarScalar(noise2, b) ==
    SCALAR_DEN + noise2 * (b + (3 * BEAT_DEN) \div 10) * COORD_DEN
        - b * 12 * (SCALAR_DEN \div (10 * BEAT_DEN))

(***************************************************************************)
(* SparkPoint.update(beat).  `beat` is the object this.beat: each spark    *)
(* reads beat.a as the spark before it left it.                            *)
(***************************************************************************)
\* A variant of ClonedReceiver for `this.pos.multiplyScalar(k)` without
\* clone(): the receiver itself is scaled.
ClonedReceiver_inPlace(pos, scaled) == scaled

\* this.pos after `this.pos.clone().multiplyScalar(k)`: the clone is scaled,
\* the receiver keeps its value.
ClonedReceiver(pos, scaled) == pos

\* A variant of SparkBeatAfter in which update() damps the beat it was given.
SparkBeatAfter_damped(b) == b \div 2

\* beat.a after update(beat): update reads it and assigns nothing to it.
SparkBeatAfter(b) == b

SparkPointUpdate(spark, seed, b, time) ==
    LET one == Scale(spark.pos,
                     NearScalar(SparkNoise(seed, spark.pos, time), b))
        two == Scale(spark.pos,
                     FarScalar(SparkNoise2(seed, spark.pos, time), b))
    IN  [spark EXCEPT !.one = one,
                      !.two = two,
                      !.pos = ClonedReceiver(ClonedReceiver(spark.pos, one), two)]

(***************************************************************************)
(* updateParticles.                                                        *)
(***************************************************************************)
\* A variant of LayerVisible whose window shrinks as the jitter grows.
LayerVisible_narrowing(rand, k, z) ==
    /\ (MAX_Z_RATE_Z - rand * k) * SCALAR_DEN > z
    /\ z > (-MAX_Z_RATE_Z + rand * k) * SCALAR_DEN

\* MAX_Z_RATE_Z + rand * k > z && z > -MAX_Z_RATE_Z - rand * k
LayerVisible(rand, k, z) ==
    /\ (MAX_Z_RATE_Z + rand * k) * SCALAR_DEN > z
    /\ z > (-MAX_Z_RATE_Z - rand * k) * SCALAR_DEN

\* A variant of FarTestZ that tests the far position's own z.
FarTestZ_own(spark) == spark.two[3]

\* The z both layer tests read: one.z.
NearTestZ(spark) == spark.one[3]
FarTestZ(spark) == spark.one[3]

\* arr[idx] = v on a Float32Array: a write past the end is dropped
\* (part_001); on a plain array that is being filled by push (part_002).
WriteAt(arr, idx, v) ==
    IF IsMain
    THEN IF idx < Len(arr) THEN [arr EXCEPT ![idx + 1] = v] ELSE arr
    ELSE Append(arr, v)

\* One layer's entry: three coordinates and the three color components.
Emit(acc, v, c) ==
    [acc EXCEPT
        !.positions = WriteAt(WriteAt(WriteAt(@, acc.posIdx, v[1]),
                                      acc.posIdx + 1, v[2]),
                              acc.posIdx + 2, v[3]),
        !.colors = WriteAt(WriteAt(WriteAt(@, acc.colorIdx, c[1]),
                                   acc.colorIdx + 1, c[2]),
                           acc.colorIdx + 2, c[3]),
        !.posIdx = @ + 3,
        !.colorIdx = @ + 3,
        !.oob = @ \/ (IsMain /\ (acc.posIdx + 3 > Len(acc.positions)
                                 \/ acc.colorIdx + 3 > Len(acc.colors)))]

\* The body of the loop for spark i.
SparkStep(i, acc) ==
    LET sp   == SparkPointUpdate(acc.sparks[i], world.seed, acc.beat, now)
        near == LayerVisible(sp.rand, 1, NearTestZ(sp))
        far  == LayerVisible(sp.rand, 2, FarTestZ(sp))
        a1   == IF near THEN Emit(acc, sp.one, sp.color) ELSE acc
        a2   == IF far THEN Emit(a1, sp.two, sp.color) ELSE a1
    IN  [a2 EXCEPT !.sparks[i] = sp,
                   !.shown = Append(@, <<near, far>>),
                   !.reads = @ \cup {acc.beat},
                   !.beat = SparkBeatAfter(acc.beat)]

RECURSIVE ParticlesFrom(_, _)
ParticlesFrom(i, acc) ==
    IF i > Len(acc.sparks) THEN acc ELSE ParticlesFrom(i + 1, SparkStep(i, acc))

\* A variant of Submit that hands the whole pre-sized array to the renderer.
Submit_whole(arr, n) == arr

\* What setAttribute receives: positions.subarray(0, posIdx) in part_001,
\* new Float32Array(this.positions) in part_002.
Submit(arr, n) ==
    IF IsMain THEN SubSeq(arr, 1, Min(n, Len(arr))) ELSE arr

\* updateParticles, from the state's sparks, buffers and beat.
updateParticles ==
    ParticlesFrom(1,
        [sparks    |-> sparks,
         positions |-> IF IsMain THEN positions ELSE <<>>,
         colors    |-> IF IsMain THEN colors ELSE <<>>,
         posIdx    |-> 0,
         colorIdx  |-> 0,
         oob       |-> oob,
         shown     |-> <<>>,
         reads     |-> {},
         beat      |-> beat])

(***************************************************************************)
(* updateHeartGeometry(time).                                              *)
(***************************************************************************)
\* The factor updateHeartGeometry multiplies noise and beat by.
HeartAmplitude == IF IsMain THEN NOISE_SCALE_AMPLITUDE ELSE NOISE_AMPLITUDE

\* A variant of HeartScale that adds the product to 1, as the spark
\* scalars do.
HeartScale_offset(noise, b) == SCALAR_DEN + noise * HeartAmplitude * b

\* scale = noise * amplitude * beat
HeartScale(noise, b) == noise * HeartAmplitude * b

\* A variant of HeartSource that scales the vertex the buffer holds (brought
\* back to thousandths).
HeartSource_inPlace(buffer, origin, i) ==
    <<buffer[i][1] \div SCALAR_DEN, buffer[i][2] \div SCALAR_DEN,
      buffer[i][3] \div SCALAR_DEN>>

\* The vertex that is scaled: the one of originHeart.
HeartSource(buffer, origin, i) == origin[i]

updateHeartGeometry(buffer, origin, b, time) ==
    [i \in 1..Len(buffer) |->
        Scale(HeartSource(buffer, origin, i),
              HeartScale(HeartNoise(world.seed, origin[i], time), b))]

(***************************************************************************)
(* The camera and the renderer: setupCamera, setupRenderer, onWindowResize.*)
(***************************************************************************)
\* A variant of PixelRatio without the cap.
PixelRatio_uncapped(dpr) == dpr

\* Math.min(window.devicePixelRatio, 2)
PixelRatio(dpr) == Min(dpr, MAX_PIXEL_RATIO)

\* window.innerWidth / window.innerHeight, kept as the pair it is made of.
Aspect(w) == <<w.width, w.height>>

NoViewport == [aspect |-> <<0, 0>>, size |-> <<0, 0>>, pixelRatio |-> 0]

\* onWindowResize: camera.aspect, renderer.setSize, renderer.setPixelRatio.
onWindowResize(w) ==
    [aspect     |-> Aspect(w),
     size       |-> <<w.width, w.height>>,
     pixelRatio |-> PixelRatio(w.dpr)]

(***************************************************************************)
(* What the page is given.  A world fixes the mesh the loader returns, the *)
(* point sampler.sample returns and the two Math.random draws for each     *)
(* spark (color index, rand), and the seed of the noise.                   *)
(***************************************************************************)
\* Points on the mesh surface: at the edge of the depth window, outside it
\* on the negative side, and just inside it.
SamplePositions == << <<10, 20, 100>>, <<-30, 5, -120>>, <<40, -10, 112>> >>
\* Jitters of a generator centred on zero: (Math.random() - 0.5) * factor.
Jitters_signed == <<0, -10, PARTICLE_RANDOM_FACTOR - 1>>

\* Values of Math.random() * PARTICLE_RANDOM_FACTOR, the largest just below it.
Jitters == <<0, 10, PARTICLE_RANDOM_FACTOR - 1>>

NumSamples == Len(SamplePositions) * Len(Jitters)
Sample(k) ==
    [pos   |-> SamplePositions[(k % Len(SamplePositions)) + 1],
     rand  |-> Jitters[((k \div Len(SamplePositions)) % Len(Jitters)) + 1],
     color |-> Palette[(k % Len(Palette)) + 1]]

\* The vertices of the loaded mesh after setupHeartGeometry.
Mesh == << <<100, -200, 50>>, <<-30, 0, 80>> >>

NumWorlds == 18
NumSeeds == 2

\* World n: the first spark is given sample n and each further spark the
\* sample `stride` after the one before: with stride 3 the same point with
\* the next jitter, with stride 4 the next point with the next jitter.
World(n, seed) ==
    LET stride == IF n < NumSamples THEN 3 ELSE 4
    IN  [origin  |-> Mesh,
         samples |-> [i \in 1..PARTICLE_COUNT |->
                         Sample((n + stride * (i - 1)) % NumSamples)],
         seed    |-> seed]

Worlds == {World(n, seed) : n \in 0..(NumWorlds - 1), seed \in 0..(NumSeeds - 1)}
DefaultWorld == World(0, 0)

DefaultWindow == [width |-> 4, height |-> 3, dpr |-> 1]
Windows == {DefaultWindow, [width |-> 16, height |-> 9, dpr |-> 3]}

\* initParticles: PARTICLE_COUNT new SparkPoints.
NewSparks ==
    [i \in 1..PARTICLE_COUNT |->
        [pos   |-> world.samples[i].pos,
         rand  |-> world.samples[i].rand,
         color |-> world.samples[i].color,
         one   |-> Null,
         two   |-> Null]]

\* new Float32Array(n)
Float32Array(n) == [i \in 1..n |-> 0]

\* The page before DOMContentLoaded, whatever it is given.
InitPage ==
    /\ script \in Scripts
    /\ reducedMotion \in (IF script = "part_001" THEN BOOLEAN ELSE {FALSE})
    /\ phase = "boot"
    /\ now = 0
    /\ lastRenderTime = 0
    /\ isAnimating = FALSE
    /\ heart = FALSE
    /\ rafQueue = 0
    /\ rafRun = 0
    /\ animLoop = FALSE
    /\ loopRun = FALSE
    /\ passes = 0
    /\ hidden = FALSE
    /\ loadsInFlight = 0
    /\ loadCalls = 0
    /\ spikes = 0
    /\ initRuns = 0
    /\ errorShown = FALSE
    /\ errorAction = "none"
    /\ loadingFailed = FALSE
    /\ audio = "none"
    /\ audioLoop = FALSE
    /\ plays = EmptyBag
    /\ audioNotices = 0
    /\ audioPrompts = {}
    /\ created = {}
    /\ disposed = {}
    /\ timeline = FALSE
    /\ timers = EmptyBag
    /\ cleaned = FALSE
    /\ swState = "none"
    /\ diag = NoDiag
    /\ lastSpace = "none"
    /\ renderFailed = FALSE
    /\ resizeTimer = -1
    /\ lastResize = -1
    /\ resizeRuns = 0
    /\ lastRunAt = -1
    /\ viewport = NoViewport
    /\ beat = 0
    /\ originHeart = <<>>
    /\ vs = <<>>
    /\ sparks = <<>>
    /\ positions = (IF script = "part_001"
                    THEN Float32Array(PARTICLE_COUNT_6) ELSE <<>>)
    /\ colors = (IF script = "part_001"
                 THEN Float32Array(PARTICLE_COUNT_6) ELSE <<>>)
    /\ submitted = [position |-> <<>>, color |-> <<>>]
    /\ shown = <<>>
    /\ oob = FALSE
    /\ memo = {}
    /\ beatRead = [sparks |-> {}, heart |-> -1]
    /\ heartKey = <<-1, -1, -1, -1>>
    /\ controlsOpacity = "css"
    /\ hideTimers = <<>>
    /\ ariaControls = "none"
    /\ lastControls = "none"
    /\ workerState = "parsed"
    /\ installWaits = "none"
    /\ deleting = {}
    /\ deleted = {}
    /\ fetches = 0
    /\ netRequests = 0
    /\ pending = EmptyBag
    /\ response = NoResponse

Init ==
    /\ InitPage
    /\ swSupported = TRUE
    /\ controlsHidden = FALSE
    /\ caches = <<>>
    /\ world = DefaultWorld
    /\ win = DefaultWindow

\* The same page, in a browser with or without service workers.
InitErrors ==
    /\ InitPage
    /\ swSupported \in (IF script = "part_001" THEN BOOLEAN ELSE {TRUE})
    /\ controlsHidden = FALSE
    /\ caches = <<>>
    /\ world = DefaultWorld
    /\ win = DefaultWindow

\* The same page, given any of the worlds.
InitWorlds ==
    /\ InitPage
    /\ swSupported = TRUE
    /\ controlsHidden = FALSE
    /\ caches = <<>>
    /\ world \in Worlds
    /\ win = DefaultWindow

\* The same page, with the overlay's hidden attribute either way in the
\* document.
InitOverlay ==
    /\ InitPage
    /\ swSupported = TRUE
    /\ controlsHidden \in BOOLEAN
    /\ caches = <<>>
    /\ world = DefaultWorld
    /\ win = DefaultWindow

(***************************************************************************)
(* Page start: the DOMContentLoaded handler, the HeartAnimation            *)
(* constructor and init().  `webgl` is what the browser offers:            *)
(*   "ok"          a WebGL context is created                              *)
(*   "noClass"     window.WebGLRenderingContext is missing                 *)
(*   "noContext"   getContext returns null                                 *)
(*   "probeThrows" getContext throws                                       *)
(***************************************************************************)
WebGLOutcomes == {"ok", "noClass", "noContext", "probeThrows"}

\* checkWebGLSupport (part_001): !!gl, and false when the probe throws.
checkWebGLSupport(webgl) == webgl = "ok"

\* The console entries init() writes for a start that fails.
InitFailureDiag(webgl) ==
    CASE webgl = "noClass"     -> Diag("webglUnsupported", 0)
      [] webgl = "probeThrows" -> Diag("webglProbe", 1)
      [] OTHER                 -> Diag("init", 1)

\* A setupAnimation that starts the timeline whatever the motion preference.
setupAnimation_always == TRUE

\* setupAnimation: the beat timeline is started unless reduced motion is on.
setupAnimation == IF IsMain THEN ~reducedMotion ELSE TRUE

\* setupAnimation: with reduced motion beat.a is set once and for all.
setupAnimationBeat ==
    IF IsMain /\ reducedMotion THEN ReducedMotionBeat ELSE beat

\* setupCamera (aspect) and setupRenderer (setSize, setPixelRatio).
setupCameraAndRenderer(w) ==
    [aspect     |-> Aspect(w),
     size       |-> <<w.width, w.height>>,
     pixelRatio |-> Min(w.dpr, MAX_PIXEL_RATIO)]

DOMContentLoaded(webgl) ==
    /\ phase = "boot"
    /\ Idle
    /\ IF webgl = "noClass"
       THEN \* part_001: Utils.showError(message); part_002: alert(...)
            /\ phase' = "nowebgl"
            /\ errorShown' = IsMain
            /\ errorAction' = "none"
            /\ diag' = InitFailureDiag(webgl)
            /\ UNCHANGED <<loadingFailed, audio, audioLoop, created,
                           timeline, loadsInFlight, loadCalls, viewport, beat,
                           timers>>
       ELSE IF ~checkWebGLSupport(webgl)
       THEN \* init() throws and its catch reports the failure
            /\ phase' = "failed"
            /\ errorShown' = IsMain
            /\ errorAction' = IF IsMain THEN "reload" ELSE "none"
            /\ loadingFailed' = ~IsMain
            /\ diag' = InitFailureDiag(webgl)
            \* part_002 has set the camera up when the renderer fails
            /\ viewport' = (IF IsMain THEN viewport
                            ELSE [viewport EXCEPT !.aspect = Aspect(win)])
            /\ UNCHANGED <<audio, audioLoop, created, timeline, loadsInFlight,
                           loadCalls, beat, timers>>
       ELSE \* every setup step runs, then loadHeartModel
            /\ phase' = "ready"
            /\ created' = {"renderer", "particleGeometry", "particleMaterial"}
            /\ viewport' = setupCameraAndRenderer(win)
            /\ timeline' = setupAnimation
            /\ beat' = setupAnimationBeat
            \* setupAudio: a paused element with loop = true
            /\ audio' = IF IsMain THEN "paused" ELSE "none"
            /\ audioLoop' = IsMain
            /\ loadsInFlight' = 1
            /\ loadCalls' = 1
            /\ timers' = timers (+) updateAriaLive(1)
            /\ diag' = NoDiag
            /\ UNCHANGED errorVars
    /\ UNCHANGED <<animVars, heart, spikes, initRuns, plays, audioNotices,
                   audioPrompts, disposed, cleaned, swState, hidden,
                   histVars, resizeVars, fixedVars, overlayVars, workerVars, world, win, originHeart,
                   vs, sparks, positions, colors, submitted, shown, oob, memo,
                   beatRead, heartKey>>

(***************************************************************************)
(* Model loading: loadHeartModel, onHeartLoaded, onHeartError, and the     *)
(* retry button of the error display.                                      *)
(***************************************************************************)
\* What the loader hands to onHeartLoaded: a mesh, or an object without one
\* (obj.children[0] is undefined and setupHeartGeometry throws).
LoadedObjects == {"mesh", "noMesh"}

\* A variant of onHeartErrorCallback that asks for a page reload, as the
\* other error handlers do, instead of loading the model again.
onHeartErrorCallback_reload == "reload"

\* The callback onHeartError gives to Utils.showError.
onHeartErrorCallback == "retry"

\* playAudio: audio.play() is called only when the audio exists and is paused.
playAudioStarts == audio = "paused"

\* The play() promise of the call `origin`; a play of the prompt's playMusic
\* removes the prompt `prompt` when it is fulfilled.
Play(origin, prompt) == [origin |-> origin, prompt |-> prompt]

onHeartLoaded(obj) ==
    /\ phase = "ready"
    /\ Idle
    /\ loadsInFlight > 0
    /\ loadsInFlight' = loadsInFlight - 1
    /\ IF obj = "mesh"
       THEN /\ heart' = TRUE
            /\ created' = created \cup {"heartGeometry", "heartMaterial"}
            \* setupSampler: originHeart copies the new mesh's vertices
            /\ originHeart' = world.origin
            /\ vs' = [i \in 1..Len(world.origin) |->
                          Scale(world.origin[i], SCALAR_DEN)]
            \* initParticles
            /\ initRuns' = initRuns + 1
            /\ spikes' = initRuns + 1
            /\ sparks' = NewSparks
            \* startAnimation
            /\ isAnimating' = TRUE
            /\ IF IsMain
               THEN /\ lastRenderTime' = now
                    /\ rafQueue' = rafQueue + 1
                    /\ UNCHANGED animLoop
               ELSE /\ animLoop' = TRUE
                    /\ UNCHANGED <<lastRenderTime, rafQueue>>
            \* the announcement of the load, then hideLoading: its 500 ms
            \* timeout and its announcement
            /\ timers' = timers (+) Copies("hideLoading", 1) (+) updateAriaLive(2)
            \* playAudio and Utils.hideError (part_001)
            /\ IF IsMain
               THEN /\ audio' = IF playAudioStarts THEN "playing" ELSE audio
                    /\ plays' = IF playAudioStarts
                                THEN plays (+) Copies(Play("autoplay", 0), 1)
                                ELSE plays
                    /\ errorShown' = FALSE
               ELSE UNCHANGED <<audio, plays, errorShown>>
            /\ diag' = NoDiag
            /\ UNCHANGED <<errorAction, loadingFailed>>
       ELSE \* the announcement; this.heart = undefined;
            \* setupHeartGeometry throws; catch
            /\ heart' = FALSE
            /\ timers' = timers (+) updateAriaLive(1)
            /\ diag' = Diag("heartSetup", 1)
            /\ errorShown' = (IF IsMain THEN TRUE ELSE errorShown)
            /\ errorAction' = (IF IsMain THEN "reload" ELSE errorAction)
            /\ loadingFailed' = (IF IsMain THEN loadingFailed ELSE TRUE)
            /\ UNCHANGED <<created, initRuns, spikes, isAnimating,
                           lastRenderTime, rafQueue, animLoop, audio,
                           plays, originHeart, vs, sparks>>
    /\ UNCHANGED <<phase, now, rafRun, loopRun, passes, hidden, loadCalls,
                   audioLoop, audioNotices, audioPrompts, disposed, timeline, cleaned,
                   swState, histVars, resizeVars, fixedVars, overlayVars, workerVars, world, win,
                   viewport, beat, positions, colors, submitted, shown, oob,
                   memo, beatRead, heartKey>>

onHeartError ==
    /\ phase = "ready"
    /\ Idle
    /\ loadsInFlight > 0
    /\ loadsInFlight' = loadsInFlight - 1
    /\ diag' = Diag("modelLoad", 1)
    /\ IF IsMain
       THEN /\ errorShown' = TRUE
            /\ errorAction' = onHeartErrorCallback
            /\ UNCHANGED loadingFailed
       ELSE /\ loadingFailed' = TRUE
            /\ UNCHANGED <<errorShown, errorAction>>
    /\ UNCHANGED <<phase, animVars, heart, loadCalls, spikes, initRuns,
                   audioVars, gpuVars, timers, cleaned, swState, hidden,
                   histVars, resizeVars, fixedVars, overlayVars, workerVars, frameVars>>

\* A click on #error-retry while it carries onHeartError's callback:
\* loadHeartModel runs again and announces the load.
RetryClick ==
    /\ IsMain
    /\ phase = "ready"
    /\ Idle
    /\ errorShown
    /\ errorAction = "retry"
    /\ loadCalls < MaxLoadCalls
    /\ loadsInFlight' = loadsInFlight + 1
    /\ loadCalls' = loadCalls + 1
    /\ timers' = timers (+) updateAriaLive(1)
    /\ diag' = NoDiag
    /\ UNCHANGED <<phase, animVars, heart, spikes, initRuns, errorVars,
                   audioVars, gpuVars, cleaned, swState, hidden,
                   histVars, resizeVars, fixedVars, overlayVars, workerVars, frameVars>>

\* One 500 ms timeout of hideLoading expires.
HideLoadingTimeout ==
    /\ Idle
    /\ BagIn("hideLoading", timers)
    /\ timers' = timers (-) Copies("hideLoading", 1)
    /\ diag' = NoDiag
    /\ UNCHANGED <<phase, animVars, loadVars, errorVars, audioVars, gpuVars,
                   cleaned, swState, hidden, histVars, resizeVars, fixedVars, overlayVars, workerVars, frameVars>>

\* One 1000 ms timeout of Utils.updateAriaLive expires: the live region is
\* removed.
AriaLiveTimeout ==
    /\ Idle
    /\ BagIn("ariaLive", timers)
    /\ timers' = timers (-) Copies("ariaLive", 1)
    /\ diag' = NoDiag
    /\ UNCHANGED <<phase, animVars, loadVars, errorVars, audioVars, gpuVars,
                   cleaned, swState, hidden, histVars, resizeVars, fixedVars,
                   overlayVars, workerVars, frameVars>>

(***************************************************************************)
(* The animation: startAnimation's requestAnimationFrame loop (part_001),  *)
(* the loop of renderer.setAnimationLoop (the Space handler of both        *)
(* scripts, and startAnimation of part_002), and render().                 *)
(***************************************************************************)
\* render() gets past its early returns: it is animating, the heart is
\* loaded and (part_001 only) the page is visible.
RenderRuns == isAnimating /\ heart /\ ~(IsMain /\ hidden)

\* An animate without frame skipping.
SkipsFrame_never(currentTime) == FALSE

\* animate's frame skipping: the frame is too close to the last rendered one.
SkipsFrame(currentTime) == currentTime - lastRenderTime < FRAME_SKIP_THRESHOLD

\* The near and far position of every spark.
Layers(sp) == [i \in 1..Len(sp) |-> <<sp[i].one, sp[i].two>>]

\* One render pass at time `time`: updateParticles, then
\* updateHeartGeometry(time).
RenderPass(time) ==
    \E r \in {updateParticles} :
        /\ sparks' = r.sparks
        /\ positions' = r.positions
        /\ colors' = r.colors
        /\ submitted' = [position |-> Submit(r.positions, r.posIdx),
                         color    |-> Submit(r.colors, r.colorIdx)]
        /\ beat' = r.beat
        /\ vs' = updateHeartGeometry(vs, originHeart, r.beat, time)
        /\ shown' = r.shown
        /\ oob' = r.oob
        /\ beatRead' = [sparks |-> r.reads, heart |-> r.beat]
        /\ heartKey' = <<r.beat, time, heartKey[1], heartKey[2]>>
        /\ memo' = (IF \E m \in memo : m[1] = beat
                    THEN memo
                    ELSE memo \cup {<<beat, Layers(r.sparks), time>>})

\* cleanup() has set this.positions and this.colors to null (part_001).
BuffersGone == IsMain /\ positions = Null

\* The sparks updateParticles has updated when it throws for want of
\* this.positions: the first spark that has a layer to write is the last.
RECURSIVE SparksUntilWrite(_, _)
SparksUntilWrite(i, sp) ==
    IF i > Len(sp)
    THEN sp
    ELSE LET s == SparkPointUpdate(sp[i], world.seed, beat, now)
         IN  IF LayerVisible(s.rand, 1, NearTestZ(s))
                \/ LayerVisible(s.rand, 2, FarTestZ(s))
             THEN [sp EXCEPT ![i] = s]
             ELSE SparksUntilWrite(i + 1, [sp EXCEPT ![i] = s])

\* A render pass after cleanup(): updateParticles throws at its first write
\* to this.positions, or at positions.subarray when it has written nothing;
\* updateHeartGeometry is not reached.
RenderPassUnbuffered ==
    /\ sparks' = SparksUntilWrite(1, sparks)
    /\ beatRead' = [beatRead EXCEPT
                       !.sparks = IF sparks = <<>> THEN {} ELSE {beat}]
    /\ UNCHANGED <<beat, vs, positions, colors, submitted, shown, oob, memo,
                   heartKey>>

\* The browser begins a display refresh `dt` ms after the previous one and
\* will run every animation-frame callback scheduled so far.
BeginFrame(dt) ==
    /\ Idle
    /\ phase = "ready"
    /\ rafQueue > 0 \/ animLoop
    /\ now + dt <= MaxTime
    /\ now' = now + dt
    /\ rafRun' = rafQueue
    /\ rafQueue' = 0
    /\ loopRun' = animLoop
    /\ passes' = 0
    /\ diag' = NoDiag
    /\ UNCHANGED <<phase, lastRenderTime, isAnimating, animLoop, loadVars,
                   errorVars, audioVars, gpuVars, timers, cleaned, swState,
                   hidden, histVars, resizeVars, fixedVars, overlayVars, workerVars, frameVars>>

\* One call of startAnimation's `animate` (part_001).  `throws` says whether
\* renderer.render throws in the render pass of this call; after cleanup()
\* updateParticles throws before it.
Animate(throws) ==
    /\ rafRun > 0
    /\ rafRun' = rafRun - 1
    /\ IF ~isAnimating
       THEN \* if (!this.isAnimating) return;
            /\ diag' = NoDiag
            /\ UNCHANGED <<rafQueue, lastRenderTime, passes, isAnimating,
                           errorShown, errorAction, renderFailed>>
       ELSE IF SkipsFrame(now)
       THEN /\ rafQueue' = rafQueue + 1
            /\ diag' = NoDiag
            /\ UNCHANGED <<lastRenderTime, passes, isAnimating, errorShown,
                           errorAction, renderFailed>>
       ELSE IF ~RenderRuns
       THEN \* render returns early; animate goes on
            /\ lastRenderTime' = now
            /\ rafQueue' = rafQueue + 1
            /\ diag' = NoDiag
            /\ UNCHANGED <<passes, isAnimating, errorShown, errorAction,
                           renderFailed>>
       ELSE IF throws \/ BuffersGone
       THEN \* render logs and re-throws; animate's catch logs, stops, reports
            /\ passes' = passes + 1
            /\ isAnimating' = FALSE
            /\ errorShown' = TRUE
            /\ errorAction' = "reload"
            /\ renderFailed' = TRUE
            /\ diag' = Diag("render", 2)
            /\ UNCHANGED <<rafQueue, lastRenderTime>>
       ELSE /\ passes' = passes + 1
            /\ lastRenderTime' = now
            /\ rafQueue' = rafQueue + 1
            /\ diag' = NoDiag
            /\ UNCHANGED <<isAnimating, errorShown, errorAction, renderFailed>>
    \* the updates of render()
    /\ IF isAnimating /\ ~SkipsFrame(now) /\ RenderRuns
       THEN IF BuffersGone THEN RenderPassUnbuffered ELSE RenderPass(now)
       ELSE UNCHANGED renderVars
    /\ UNCHANGED <<phase, now, animLoop, loopRun, loadVars, loadingFailed,
                   audioVars, gpuVars, timers, cleaned, swState, hidden,
                   lastSpace, resizeVars, fixedVars, overlayVars, workerVars, sceneVars>>

\* One call of the callback installed by setAnimationLoop:
\* (time) => this.render(time).  An exception leaves the callback uncaught:
\* the loop is not scheduled again and, in part_001, the window "error"
\* handler logs it and shows the error display with the reload action.
AnimationLoopCallback(throws) ==
    /\ loopRun
    /\ loopRun' = FALSE
    /\ IF ~RenderRuns
       THEN /\ diag' = NoDiag
            /\ UNCHANGED <<passes, animLoop, errorShown, errorAction,
                           renderFailed>>
       ELSE IF throws \/ BuffersGone
       THEN /\ passes' = passes + 1
            /\ animLoop' = FALSE
            /\ renderFailed' = TRUE
            /\ errorShown' = (IF IsMain THEN TRUE ELSE errorShown)
            /\ errorAction' = (IF IsMain THEN "reload" ELSE errorAction)
            /\ diag' = Diag("render", IF IsMain THEN 2 ELSE 0)
       ELSE /\ passes' = passes + 1
            /\ diag' = NoDiag
            /\ UNCHANGED <<animLoop, errorShown, errorAction, renderFailed>>
    /\ IF RenderRuns
       THEN IF BuffersGone THEN RenderPassUnbuffered ELSE RenderPass(now)
       ELSE UNCHANGED renderVars
    /\ UNCHANGED <<phase, now, lastRenderTime, isAnimating, rafQueue, rafRun,
                   loadVars, loadingFailed, audioVars, gpuVars, timers,
                   cleaned, swState, hidden, lastSpace, resizeVars, fixedVars, overlayVars, workerVars,
                   sceneVars>>

\* onKeyDown, case " ": toggle isAnimating and install or remove the
\* setAnimationLoop callback.
KeySpace ==
    /\ phase = "ready"
    /\ Idle
    /\ isAnimating' = ~isAnimating
    /\ animLoop' = ~isAnimating
    /\ lastSpace' = IF ~isAnimating THEN "on"
                    ELSE IF heart THEN "off" ELSE "offEarly"
    /\ diag' = KeyDown(" ")
    /\ UNCHANGED <<phase, now, lastRenderTime, rafQueue, rafRun, loopRun,
                   passes, loadVars, errorVars, audioVars, gpuVars, timers,
                   cleaned, swState, hidden, renderFailed, resizeVars,
                   fixedVars, overlayVars, workerVars, frameVars>>

\* The visibilitychange event: document.hidden flips; the handler, set when
\* the script is read, only announces (part_001) or logs (part_002) it.
VisibilityChange ==
    /\ Idle
    /\ CopiesIn("ariaLive", timers) < MaxAriaLive
    /\ hidden' = ~hidden
    /\ timers' = timers (+) updateAriaLive(1)
    /\ diag' = NoDiag
    /\ UNCHANGED <<phase, animVars, loadVars, errorVars, audioVars, gpuVars,
                   cleaned, swState, histVars, resizeVars, fixedVars, overlayVars, workerVars, frameVars>>

\* A tick of the gsap timeline setupAnimation started: the tween writes
\* beat.a.  The timeline repeats for ever and nothing stops it.
Tween(b) ==
    /\ phase = "ready"
    /\ timeline
    /\ b # beat
    /\ beat' = b
    /\ diag' = NoDiag
    /\ UNCHANGED <<phase, animVars, loadVars, errorVars, audioVars, gpuVars,
                   timers, cleaned, swState, hidden, histVars, resizeVars,
                   fixedVars, overlayVars, workerVars, sceneVars, vs, sparks, positions, colors,
                   submitted, shown, oob, memo, beatRead, heartKey>>

(***************************************************************************)
(* Teardown: the beforeunload handler calls cleanup() (part_001).          *)
(***************************************************************************)
\* The GPU resources cleanup() disposes: this.geometry, this.material and
\* this.renderer, each when it exists.
CleanupDisposes == created \cap {"particleGeometry", "particleMaterial", "renderer"}

BeforeUnload ==
    /\ IsMain
    /\ phase \in {"ready", "failed"}
    /\ Idle
    /\ cleaned' = TRUE
    /\ isAnimating' = FALSE
    /\ audio' = "none"
    /\ disposed' = disposed \cup CleanupDisposes
    /\ spikes' = 0
    \* this.spikes = []; this.positions = null; this.colors = null
    /\ sparks' = <<>>
    /\ positions' = Null
    /\ colors' = Null
    /\ diag' = NoDiag
    /\ UNCHANGED <<phase, now, lastRenderTime, rafQueue, rafRun, animLoop,
                   loopRun, passes, heart, loadsInFlight, loadCalls, initRuns,
                   errorVars, audioLoop, plays, audioNotices, audioPrompts,
                   created, timeline, timers, swState, hidden, histVars, resizeVars,
                   fixedVars, overlayVars, workerVars, sceneVars, beat, vs, submitted, shown, oob,
                   memo, beatRead, heartKey>>

(***************************************************************************)
(* Audio (part_001): setupAudio's "error" and "ended" listeners, playAudio *)
(* after the model loads, the M, R and L keys, the autoplay prompts, and   *)
(* the window "unhandledrejection" handler that receives a rejected play() *)
(* promise nobody catches.                                                 *)
(***************************************************************************)
\* audio.play() is called by playAudio ("autoplay"), the M and R keys
\* ("key"), the prompt's playMusic ("prompt") and the "ended" listener
\* ("ended").  Whether the caller `origin` attached a catch: playAudio,
\* playMusic and the "ended" listener do, the M and R key handlers do not.
PlayIsCaught(origin) == origin \in {"autoplay", "prompt", "ended"}

\* The "error" event of an audio element (setupAudio runs twice and each of
\* its elements carries the listener; cleanup() removes none): console.error,
\* then showAudioError, console.warn and one more notification.
AudioLoadError ==
    /\ IsMain
    /\ phase = "ready"
    /\ Idle
    /\ audioNotices < MaxAudioNotices
    /\ audioNotices' = audioNotices + 1
    /\ diag' = Diag("audioLoad", 2)
    /\ UNCHANGED <<phase, animVars, loadVars, errorVars, audio, audioLoop,
                   plays, audioPrompts, gpuVars, timers, cleaned, swState,
                   hidden, histVars, resizeVars, fixedVars, overlayVars,
                   workerVars, frameVars>>

\* The 3 s timeout of one showAudioError call removes its notification.
AudioNoticeTimeout ==
    /\ Idle
    /\ audioNotices > 0
    /\ audioNotices' = audioNotices - 1
    /\ diag' = NoDiag
    /\ UNCHANGED <<phase, animVars, loadVars, errorVars, audio, audioLoop,
                   plays, audioPrompts, gpuVars, timers, cleaned, swState,
                   hidden, histVars, resizeVars, fixedVars, overlayVars,
                   workerVars, frameVars>>

\* What the key handlers and the "ended" listener of the audio leave alone.
AudioKeyFrame ==
    UNCHANGED <<phase, animVars, loadVars, errorVars, audioNotices,
                   audioPrompts, gpuVars, cleaned, swState, hidden, histVars,
                   resizeVars, fixedVars, overlayVars, workerVars, frameVars>>

\* onKeyDown, case "m"/"M": if there is an audio, play when paused (no
\* catch), pause otherwise.
KeyM ==
    /\ IsMain
    /\ phase = "ready"
    /\ Idle
    /\ audio = "paused" => BagCardinality(plays) < MaxPlays
    /\ IF audio = "paused"
       THEN /\ audio' = "playing"
            /\ plays' = plays (+) Copies(Play("key", 0), 1)
       ELSE /\ audio' = (IF audio = "playing" THEN "paused" ELSE audio)
            /\ UNCHANGED plays
    /\ UNCHANGED <<audioLoop, timers>>
    /\ diag' = KeyDown("m")
    /\ AudioKeyFrame

\* onKeyDown, case "r"/"R": if there is an audio, rewind and play (no catch).
KeyR ==
    /\ IsMain
    /\ phase = "ready"
    /\ Idle
    /\ audio # "none" => BagCardinality(plays) < MaxPlays
    /\ IF audio # "none"
       THEN /\ audio' = "playing"
            /\ plays' = plays (+) Copies(Play("key", 0), 1)
       ELSE UNCHANGED <<audio, plays>>
    /\ UNCHANGED <<audioLoop, timers>>
    /\ diag' = KeyDown("r")
    /\ AudioKeyFrame

\* onKeyDown, case "l"/"L": if there is an audio, audio.loop flips and
\* showLoopStatus adds a notification that a 2000 ms timeout removes.
KeyL ==
    /\ IsMain
    /\ phase = "ready"
    /\ Idle
    /\ audio # "none" => CopiesIn("loopStatus", timers) < MaxLoopNotices
    /\ IF audio # "none"
       THEN /\ audioLoop' = ~audioLoop
            /\ timers' = timers (+) Copies("loopStatus", 1)
       ELSE UNCHANGED <<audioLoop, timers>>
    /\ UNCHANGED <<audio, plays>>
    /\ diag' = KeyDown("l")
    /\ AudioKeyFrame

\* One 2000 ms timeout of showLoopStatus expires.
LoopStatusTimeout ==
    /\ Idle
    /\ BagIn("loopStatus", timers)
    /\ timers' = timers (-) Copies("loopStatus", 1)
    /\ UNCHANGED <<audio, audioLoop, plays>>
    /\ diag' = NoDiag
    /\ AudioKeyFrame

\* The "ended" event of the playing audio, which a looping audio never
\* sends: the listener rewinds and plays again, with a catch.
AudioEnded ==
    /\ IsMain
    /\ phase = "ready"
    /\ Idle
    /\ audio = "playing"
    /\ ~audioLoop
    /\ BagCardinality(plays) < MaxPlays
    /\ plays' = plays (+) Copies(Play("ended", 0), 1)
    /\ UNCHANGED <<audio, audioLoop, timers>>
    /\ diag' = NoDiag
    /\ AudioKeyFrame

\* The elements of a prompt a click can land on.
PromptTargets == {"button", "prompt"}

\* playMusic is the click listener of the prompt and of its button, and a
\* click on the button reaches both.
PlayMusicCalls(target) == IF target = "button" THEN 2 ELSE 1

\* A click on the autoplay prompt `id`.  Each listener calls
\* this.audio.play(); after cleanup() this.audio is null, each call throws
\* and the window "error" handler logs it and shows the error display.
PromptClick(id, target) ==
    /\ IsMain
    /\ phase = "ready"
    /\ Idle
    /\ id \in audioPrompts
    /\ IF audio = "none"
       THEN /\ errorShown' = TRUE
            /\ errorAction' = "reload"
            /\ diag' = Diag("promptClick", PlayMusicCalls(target))
            /\ UNCHANGED <<audio, plays>>
       ELSE /\ BagCardinality(plays) + PlayMusicCalls(target) <= MaxPlays
            /\ audio' = "playing"
            /\ plays' = plays (+) Copies(Play("prompt", id), PlayMusicCalls(target))
            /\ diag' = NoDiag
            /\ UNCHANGED <<errorShown, errorAction>>
    /\ UNCHANGED <<phase, animVars, loadVars, loadingFailed, audioLoop,
                   audioNotices, audioPrompts, gpuVars, timers, cleaned,
                   swState, hidden, histVars, resizeVars, fixedVars,
                   overlayVars, workerVars, frameVars>>

\* The play() promise `p` is fulfilled.  playAudio announces it; playMusic
\* removes its prompt, and when the prompt is gone already removeChild
\* throws and playMusic's catch logs.
PlayResolved(p) ==
    /\ Idle
    /\ BagIn(p, plays)
    /\ plays' = plays (-) Copies(p, 1)
    /\ audioPrompts' = audioPrompts \ {p.prompt}
    /\ timers' = timers (+) updateAriaLive(IF p.origin = "autoplay" THEN 1 ELSE 0)
    /\ diag' = (IF p.origin = "prompt" /\ p.prompt \notin audioPrompts
                THEN Diag("promptRemove", 1) ELSE NoDiag)
    /\ UNCHANGED <<phase, animVars, loadVars, errorVars, audio, audioLoop,
                   audioNotices, gpuVars, cleaned, swState, hidden, histVars,
                   resizeVars, fixedVars, overlayVars, workerVars, frameVars>>

\* The number handleAutoplayRestriction's new prompt is known by.
NewPrompt ==
    CHOOSE n \in 1..(Cardinality(audioPrompts) + BagCardinality(plays) + 1) :
        /\ n \notin audioPrompts
        /\ \A q \in BagToSet(plays) : q.prompt # n

\* The play() promise `p` is rejected.  With a catch: console.error (and, for
\* playAudio, handleAutoplayRestriction adds a prompt).  Without one the
\* window "unhandledrejection" handler runs: console.error and
\* Utils.showError with the reload callback.
PlayRejected(p) ==
    /\ Idle
    /\ BagIn(p, plays)
    /\ plays' = plays (-) Copies(p, 1)
    /\ audio' = (IF audio = "playing" THEN "paused" ELSE audio)
    /\ diag' = Diag("playRejected", 1)
    /\ IF PlayIsCaught(p.origin)
       THEN /\ audioPrompts' = (IF p.origin = "autoplay"
                                THEN audioPrompts \cup {NewPrompt}
                                ELSE audioPrompts)
            /\ UNCHANGED <<errorShown, errorAction>>
       ELSE /\ errorShown' = TRUE
            /\ errorAction' = "reload"
            /\ UNCHANGED audioPrompts
    /\ UNCHANGED <<phase, animVars, loadVars, loadingFailed, audioLoop,
                   audioNotices, gpuVars, timers, cleaned, swState, hidden,
                   histVars, resizeVars, fixedVars, overlayVars, workerVars,
                   frameVars>>

(***************************************************************************)
(* Service worker registration (part_001): when the navigator has a        *)
(* serviceWorker the script sets a window "load" handler that calls        *)
(* navigator.serviceWorker.register; both of its callbacks are empty.      *)
(***************************************************************************)
\* Console entries written by the catch of register(): none.
swCatchLogs == 0

WindowLoad ==
    /\ IsMain
    /\ swSupported
    /\ Idle
    /\ swState = "none"
    /\ swState' = "pending"
    /\ diag' = NoDiag
    /\ UNCHANGED <<phase, animVars, loadVars, errorVars, audioVars, gpuVars,
                   timers, cleaned, hidden, histVars, resizeVars, fixedVars, overlayVars, workerVars, frameVars>>

SWRegistered ==
    /\ Idle
    /\ swState = "pending"
    /\ swState' = "ok"
    /\ diag' = NoDiag
    /\ UNCHANGED <<phase, animVars, loadVars, errorVars, audioVars, gpuVars,
                   timers, cleaned, hidden, histVars, resizeVars, fixedVars, overlayVars, workerVars, frameVars>>

SWRegistrationFailed ==
    /\ Idle
    /\ swState = "pending"
    /\ swState' = "failed"
    /\ diag' = Diag("swRegister", swCatchLogs)
    /\ UNCHANGED <<phase, animVars, loadVars, errorVars, audioVars, gpuVars,
                   timers, cleaned, hidden, histVars, resizeVars, fixedVars, overlayVars, workerVars, frameVars>>

(***************************************************************************)
(* Window resize.  part_001 registers Utils.debounce(onWindowResize, 100); *)
(* part_002 registers onWindowResize itself.  A timeout that is due runs   *)
(* before the clock moves on and before a resize event of the same         *)
(* instant.  A burst is a run of events each less than the wait after the  *)
(* one before.                                                             *)
(***************************************************************************)
\* debounce: the due time of setTimeout(later, wait) armed at time t.
DebounceDue(t) == t + RESIZE_DEBOUNCE_WAIT

\* Whether the script's resize listener is the debounced function.
ResizeIsDebounced == IsMain

StartsBurst == lastResize = -1 \/ now - lastResize >= RESIZE_DEBOUNCE_WAIT

\* The window takes the dimensions `w` and the resize event is delivered.
ResizeEvent(w) ==
    /\ phase = "ready"
    /\ Idle
    /\ resizeTimer = -1 \/ now < resizeTimer
    /\ resizeRuns < MaxResizeRuns
    /\ lastResize' = now
    /\ win' = w
    /\ IF ResizeIsDebounced
       THEN \* clearTimeout(timeout); timeout = setTimeout(later, wait)
            /\ resizeTimer' = DebounceDue(now)
            /\ resizeRuns' = (IF StartsBurst THEN 0 ELSE resizeRuns)
            /\ UNCHANGED <<lastRunAt, viewport>>
       ELSE \* onWindowResize runs in the event handler
            /\ resizeRuns' = (IF StartsBurst THEN 0 ELSE resizeRuns) + 1
            /\ lastRunAt' = now
            /\ viewport' = onWindowResize(w)
            /\ UNCHANGED resizeTimer
    /\ diag' = NoDiag
    /\ UNCHANGED <<phase, animVars, loadVars, errorVars, audioVars, gpuVars,
                   timers, cleaned, swState, hidden, histVars, fixedVars, overlayVars, workerVars,
                   world, originHeart, renderVars>>

\* The debounce timeout expires: later() clears it and calls onWindowResize.
ResizeTimeout ==
    /\ Idle
    /\ resizeTimer # -1
    /\ now >= resizeTimer
    /\ resizeTimer' = -1
    /\ resizeRuns' = resizeRuns + 1
    /\ lastRunAt' = now
    /\ viewport' = onWindowResize(win)
    /\ diag' = NoDiag
    /\ UNCHANGED <<phase, animVars, loadVars, errorVars, audioVars, gpuVars,
                   timers, cleaned, swState, hidden, histVars, lastResize,
                   fixedVars, overlayVars, workerVars, world, win, originHeart, renderVars>>

\* Time passes with no display refresh (the resize machine's clock).
ClockTick(dt) ==
    /\ Idle
    /\ phase = "ready"
    /\ now + dt <= MaxResizeTime
    /\ resizeTimer = -1 \/ now + dt <= resizeTimer
    /\ now' = now + dt
    /\ diag' = NoDiag
    /\ UNCHANGED <<phase, lastRenderTime, isAnimating, rafQueue, rafRun,
                   animLoop, loopRun, passes, loadVars, errorVars, audioVars,
                   gpuVars, timers, cleaned, swState, hidden, histVars,
                   resizeVars, fixedVars, overlayVars, workerVars, frameVars>>

(***************************************************************************)
(* The music-controls overlay (part_001): the H key and the help button    *)
(* toggle it, a click on it hides it, a tap on the canvas shows it.  A     *)
(* hide fades the overlay out and sets hidden from a 300 ms timeout whose  *)
(* id is not kept.                                                         *)
(***************************************************************************)
\* What every overlay handler leaves alone.
OverlayFrame ==
    UNCHANGED <<phase, animVars, loadVars, errorVars, audioVars, gpuVars,
                   cleaned, swState, hidden, histVars, resizeVars,
                   fixedVars, workerVars, frameVars>>

\* style.opacity = "0"; setTimeout(() => { hidden = true }, 300)
FadeOut ==
    /\ Len(hideTimers) < MaxHideTimers
    /\ controlsOpacity' = "0"
    /\ hideTimers' = Append(hideTimers, now + HIDE_DELAY)
    /\ lastControls' = "hide"
    /\ UNCHANGED controlsHidden

\* hidden = false; style.opacity = "0.8"
FadeIn ==
    /\ controlsHidden' = FALSE
    /\ controlsOpacity' = "0.8"
    /\ lastControls' = "show"
    /\ UNCHANGED hideTimers

toggleControlsVisibility ==
    /\ IF ~controlsHidden
       THEN FadeOut /\ ariaControls' = "Controls hidden"
       ELSE FadeIn /\ ariaControls' = "Controls shown"
    /\ timers' = timers (+) updateAriaLive(1)

\* onKeyDown, case "h" / "H".
KeyH ==
    /\ IsMain
    /\ phase = "ready"
    /\ Idle
    /\ toggleControlsVisibility
    /\ diag' = KeyDown("h")
    /\ OverlayFrame

\* The click listener of the help button.
HelpButtonClick ==
    /\ IsMain
    /\ phase = "ready"
    /\ Idle
    /\ toggleControlsVisibility
    /\ diag' = NoDiag
    /\ OverlayFrame

\* The click listener of the overlay; a hidden element receives no click.
OverlayClick ==
    /\ IsMain
    /\ phase = "ready"
    /\ Idle
    /\ ~controlsHidden
    /\ FadeOut
    /\ UNCHANGED <<ariaControls, timers>>
    /\ diag' = NoDiag
    /\ OverlayFrame

\* onTap: a short touch on the canvas shows the overlay if it is hidden.
onTap ==
    /\ IsMain
    /\ phase = "ready"
    /\ Idle
    /\ IF controlsHidden
       THEN FadeIn
       ELSE UNCHANGED <<controlsHidden, controlsOpacity, hideTimers,
                        lastControls>>
    /\ UNCHANGED <<ariaControls, timers>>
    /\ diag' = NoDiag
    /\ OverlayFrame

\* The oldest hide timeout expires: hidden = true.
HideTimeout ==
    /\ Idle
    /\ hideTimers # <<>>
    /\ now >= Head(hideTimers)
    /\ controlsHidden' = TRUE
    /\ hideTimers' = Tail(hideTimers)
    /\ UNCHANGED <<controlsOpacity, ariaControls, lastControls, timers>>
    /\ diag' = NoDiag
    /\ OverlayFrame

\* Time passes with no display refresh (the overlay machine's clock); no
\* timeout is overrun.
OverlayTick(dt) ==
    /\ Idle
    /\ phase = "ready"
    /\ now + dt <= MaxOverlayTime
    /\ resizeTimer = -1 \/ now + dt <= resizeTimer
    /\ IF hideTimers = <<>> THEN TRUE ELSE now + dt <= Head(hideTimers)
    /\ now' = now + dt
    /\ diag' = NoDiag
    /\ UNCHANGED <<phase, lastRenderTime, isAnimating, rafQueue, rafRun,
                   animLoop, loopRun, passes, loadVars, errorVars, audioVars,
                   gpuVars, timers, cleaned, swState, hidden, histVars,
                   resizeVars, fixedVars, overlayVars, workerVars, frameVars>>

(***************************************************************************)
(* The service worker, sw.js.  A cache is a name and a set of entries, an  *)
(* entry a url and the body stored for it: "old" is what an earlier        *)
(* version stored, "new" is what the network serves now.                   *)
(***************************************************************************)
\* What an earlier version of the worker has left in the CacheStorage.
StaleEntries == {[url |-> "/", body |-> "old"],
                 [url |-> "/legacy.js", body |-> "old"]}
OldCaches ==
    {<<>>,
     <<[name |-> "heart-animation-v0", entries |-> StaleEntries]>>,
     <<[name |-> CACHE_NAME, entries |-> StaleEntries]>>,
     <<[name |-> "heart-animation-v0", entries |-> StaleEntries],
       [name |-> CACHE_NAME, entries |-> StaleEntries]>>,
     <<[name |-> "heart-animation-v0", entries |-> StaleEntries],
       [name |-> "heart-animation-beta", entries |-> StaleEntries]>>}

\* The requests the pages send through the worker.
RequestUrls == {"/", "/assets/js/main.js", "/legacy.js", "/assets/heart.obj"}
Requests == [url : RequestUrls, method : {"GET", "POST"}]
NetworkOutcomes == {"ok", "error"}
MaxFetches == 3

\* The worker script has been parsed; the CacheStorage is what earlier
\* versions left.
InitWorker ==
    /\ InitPage
    /\ swSupported = TRUE
    /\ controlsHidden = FALSE
    /\ caches \in OldCaches
    /\ world = DefaultWorld
    /\ win = DefaultWindow

\* What the worker's handlers leave alone: the page.
WorkerFrame ==
    UNCHANGED <<phase, animVars, loadVars, errorVars, audioVars, gpuVars,
                timers, cleaned, swState, hidden, diag, histVars, resizeVars,
                fixedVars, overlayVars, frameVars>>

CacheNames(cs) == {cs[i].name : i \in 1..Len(cs)}

\* caches.open(name): the cache of that name, created last if there is none.
CachesOpen(cs, name) ==
    IF name \in CacheNames(cs)
    THEN cs
    ELSE Append(cs, [name |-> name, entries |-> {}])

\* cache.put for every url: the entry of a url is replaced.
PutAll(entries, urls, body) ==
    {e \in entries : e.url \notin urls} \cup {[url |-> u, body |-> body] : u \in urls}

\* cache.addAll(urls) on the cache `name`.
AddAll(cs, name, urls) ==
    [i \in 1..Len(cs) |->
        IF cs[i].name = name
        THEN [cs[i] EXCEPT !.entries = PutAll(@, urls, "new")]
        ELSE cs[i]]

\* The entries of cache i a request matches: same url, GET only.
Matches(cs, i, request) ==
    {e \in cs[i].entries : request.method = "GET" /\ e.url = request.url}

\* A variant of CacheMatch that never finds an entry.
CacheMatch_none(cs, request) == {}

\* caches.match(request): the entry of the first cache, in creation order,
\* that has one; the empty set stands for undefined.
CacheMatch(cs, request) ==
    LET hits == {i \in 1..Len(cs) : Matches(cs, i, request) # {}}
    IN  IF hits = {}
        THEN {}
        ELSE Matches(cs, CHOOSE i \in hits : \A j \in hits : i <= j, request)

\* The install event, up to the return of its listener:
\* waitUntil(caches.open(CACHE_NAME).then(cache => cache.addAll(urlsToCache)))
\* has started caches.open and the install waits for it.
WorkerInstall ==
    /\ workerState = "parsed"
    /\ workerState' = "installing"
    /\ installWaits' = "open"
    /\ UNCHANGED <<caches, deleting, deleted, fetches, netRequests, pending, response>>
    /\ WorkerFrame

\* caches.open(CACHE_NAME) is settled: the cache exists, created empty if
\* there was none, and the reaction logs and starts cache.addAll(urlsToCache).
CachesOpenSettled ==
    /\ workerState = "installing"
    /\ installWaits = "open"
    /\ caches' = CachesOpen(caches, CACHE_NAME)
    /\ installWaits' = "addAll"
    /\ UNCHANGED <<workerState, deleting, deleted, fetches, netRequests, pending,
                   response>>
    /\ WorkerFrame

\* cache.addAll(urlsToCache) is settled: it has stored every response or,
\* when a request failed, none; the worker whose install promise rejects is
\* discarded.
AddAllSettled(net) ==
    /\ workerState = "installing"
    /\ installWaits = "addAll"
    /\ caches' = (IF net = "ok"
                  THEN AddAll(caches, CACHE_NAME, urlsToCache)
                  ELSE caches)
    /\ workerState' = (IF net = "ok" THEN "installed" ELSE "redundant")
    /\ installWaits' = "none"
    /\ UNCHANGED <<deleting, deleted, fetches, netRequests, pending, response>>
    /\ WorkerFrame

\* The activate event, up to the return of its listener:
\* waitUntil(caches.keys().then(...)) has started caches.keys.
WorkerActivate ==
    /\ workerState = "installed"
    /\ workerState' = "activating"
    /\ UNCHANGED <<installWaits, caches, deleting, deleted, fetches,
                   netRequests, pending, response>>
    /\ WorkerFrame

\* caches.keys() is settled and its reaction runs: every name that is not
\* CACHE_NAME is logged and caches.delete is called for it; with no such
\* name Promise.all is fulfilled at once and the worker is active.
CachesKeysSettled ==
    /\ workerState = "activating"
    /\ deleting = {}
    /\ deleting' = CacheNames(caches) \ {CACHE_NAME}
    /\ workerState' = (IF deleting' = {} THEN "activated" ELSE "activating")
    /\ UNCHANGED <<installWaits, caches, deleted, fetches, netRequests,
                   pending, response>>
    /\ WorkerFrame

\* caches.delete(name) is settled: the cache is gone; with the last delete
\* Promise.all is fulfilled and the worker is active.
CacheDeleteSettled(name) ==
    /\ workerState = "activating"
    /\ name \in deleting
    /\ caches' = SelectSeq(caches, LAMBDA c : c.name # name)
    /\ deleting' = deleting \ {name}
    /\ deleted' = deleted \cup {name}
    /\ workerState' = (IF deleting' = {} THEN "activated" ELSE "activating")
    /\ UNCHANGED <<installWaits, fetches, netRequests, pending, response>>
    /\ WorkerFrame

\* A fetch event of the active worker, up to the return of its listener:
\* respondWith(caches.match(request).then(r => r || fetch(request))) has
\* started caches.match and the event waits for it.
WorkerFetch(request) ==
    /\ workerState = "activated"
    /\ fetches < MaxFetches
    /\ fetches' = fetches + 1
    /\ pending' = pending (+) Copies([request |-> request, stage |-> "match"], 1)
    /\ UNCHANGED <<workerState, installWaits, caches, deleting, deleted, netRequests,
                   response>>
    /\ WorkerFrame

\* caches.match of the event p is settled and the reaction r => r ||
\* fetch(request) runs: an entry is the answer; without one fetch() is
\* called and the event waits for the network.
CacheMatchSettled(p) ==
    /\ BagIn(p, pending)
    /\ p.stage = "match"
    /\ LET hit == CacheMatch(caches, p.request)
       IN  IF hit # {}
           THEN /\ response' = [from |-> "cache", request |-> p.request,
                                body |-> (CHOOSE e \in hit : TRUE).body]
                /\ pending' = pending (-) Copies(p, 1)
                /\ UNCHANGED netRequests
           ELSE /\ netRequests' = netRequests + 1
                /\ pending' = (pending (-) Copies(p, 1))
                               (+) Copies([p EXCEPT !.stage = "network"], 1)
                /\ UNCHANGED response
    /\ UNCHANGED <<workerState, installWaits, caches, deleting, deleted, fetches>>
    /\ WorkerFrame

\* fetch(request) of the event p is settled: its response, or the network
\* error, is the answer.
NetworkFetchSettled(p, net) ==
    /\ BagIn(p, pending)
    /\ p.stage = "network"
    /\ response' = (IF net = "ok"
                    THEN [from |-> "network", request |-> p.request,
                          body |-> "new"]
                    ELSE [from |-> "error", request |-> p.request,
                          body |-> ""])
    /\ pending' = pending (-) Copies(p, 1)
    /\ UNCHANGED <<workerState, installWaits, caches, deleting, deleted, fetches,
                   netRequests>>
    /\ WorkerFrame

(***************************************************************************)
(* Specifications.  Each composes the handlers that act on one part of the *)
(* page; the variables of the other parts keep their values.               *)
(*   Spec        start, model loading and retry, the animation loops, the  *)
(*               Space key, page visibility, teardown, over the first      *)
(*               MaxTime ms, in which no timeout of the page is due        *)
(*   SpecAudio   start, model loading and retry, every audio handler,      *)
(*               teardown                                                  *)
(*   SpecErrors  every handler that ends in an error outcome, with what    *)
(*               is needed to reach it, on a 60 Hz display                 *)
(*   SpecTeardown  start, model loading and retry, the Space key, page     *)
(*               visibility, the audio's error event, the timeouts of      *)
(*               hideLoading, Utils.updateAriaLive and showAudioError,     *)
(*               teardown                                                  *)
(*   SpecResize  start, resize events, the debounce timeout and the clock  *)
(*   SpecFrame   for every world: start, model loading, the animation      *)
(*               loops and the beat tween                                  *)
(*   SpecViewport  start, model loading, the animation loops, resize       *)
(*               events, the debounce timeout and the clock                *)
(*   SpecReplay  start, model loading, the animation loops, the beat       *)
(*               tween and the Space key                                   *)
(*   SpecBeat    every handler the beat passes by: start, model loading,   *)
(*               the animation loops, the beat tween, the Space, M and R   *)
(*               keys, resize events, the debounce timeout and the clock   *)
(*   SpecOverlay start, the overlay's handlers, the hide timeout, the      *)
(*               timeout of Utils.updateAriaLive and the clock, with the   *)
(*               overlay hidden or shown in the document                   *)
(*   SpecWorker  the service worker's install, activate and fetch events   *)
(*               and the promise reactions that complete them, with the    *)
(*               caches earlier versions left                              *)
(***************************************************************************)
Next ==
    \/ \E w \in WebGLOutcomes : DOMContentLoaded(w)
    \/ \E o \in LoadedObjects : onHeartLoaded(o)
    \/ onHeartError
    \/ RetryClick
    \/ \E dt \in FrameGaps : BeginFrame(dt)
    \/ \E t \in BOOLEAN : Animate(t)
    \/ \E t \in BOOLEAN : AnimationLoopCallback(t)
    \/ KeySpace
    \/ VisibilityChange
    \/ BeforeUnload

Spec == Init /\ [][Next]_vars

NextAudio ==
    \/ \E w \in WebGLOutcomes : DOMContentLoaded(w)
    \/ \E o \in LoadedObjects : onHeartLoaded(o)
    \/ onHeartError
    \/ RetryClick
    \/ AudioLoadError
    \/ AudioNoticeTimeout
    \/ KeyM
    \/ KeyR
    \/ KeyL
    \/ LoopStatusTimeout
    \/ AudioEnded
    \/ \E id \in audioPrompts, target \in PromptTargets : PromptClick(id, target)
    \/ \E p \in BagToSet(plays) : PlayResolved(p)
    \/ \E p \in BagToSet(plays) : PlayRejected(p)
    \/ BeforeUnload

SpecAudio == Init /\ [][NextAudio]_vars

NextErrors ==
    \/ \E w \in WebGLOutcomes : DOMContentLoaded(w)
    \/ \E o \in LoadedObjects : onHeartLoaded(o)
    \/ onHeartError
    \/ BeginFrame(FRAME_SKIP_THRESHOLD + 1)
    \/ \E t \in BOOLEAN : Animate(t)
    \/ \E t \in BOOLEAN : AnimationLoopCallback(t)
    \/ KeySpace
    \/ AudioLoadError
    \/ KeyM
    \/ \E p \in BagToSet(plays) : PlayResolved(p)
    \/ \E p \in BagToSet(plays) : PlayRejected(p)
    \/ WindowLoad
    \/ SWRegistered
    \/ SWRegistrationFailed

SpecErrors == InitErrors /\ [][NextErrors]_vars

NextTeardown ==
    \/ \E w \in WebGLOutcomes : DOMContentLoaded(w)
    \/ \E o \in LoadedObjects : onHeartLoaded(o)
    \/ onHeartError
    \/ RetryClick
    \/ KeySpace
    \/ VisibilityChange
    \/ AudioLoadError
    \/ HideLoadingTimeout
    \/ AriaLiveTimeout
    \/ AudioNoticeTimeout
    \/ BeforeUnload

SpecTeardown == Init /\ [][NextTeardown]_vars

NextResize ==
    \/ \E w \in WebGLOutcomes : DOMContentLoaded(w)
    \/ \E w \in Windows : ResizeEvent(w)
    \/ ResizeTimeout
    \/ \E dt \in ResizeGaps : ClockTick(dt)

SpecResize == Init /\ [][NextResize]_vars

NextFrame ==
    \/ DOMContentLoaded("ok")
    \/ onHeartLoaded("mesh")
    \/ \E dt \in FrameGaps : BeginFrame(dt)
    \/ Animate(FALSE)
    \/ AnimationLoopCallback(FALSE)
    \/ \E b \in BeatValues : Tween(b)

SpecFrame == InitWorlds /\ [][NextFrame]_vars

NextViewport ==
    \/ DOMContentLoaded("ok")
    \/ onHeartLoaded("mesh")
    \/ \E dt \in FrameGaps : BeginFrame(dt)
    \/ Animate(FALSE)
    \/ AnimationLoopCallback(FALSE)
    \/ \E w \in Windows : ResizeEvent(w)
    \/ ResizeTimeout
    \/ \E dt \in ResizeGaps : ClockTick(dt)

SpecViewport == Init /\ [][NextViewport]_vars

NextReplay ==
    \/ DOMContentLoaded("ok")
    \/ onHeartLoaded("mesh")
    \/ \E dt \in FrameGaps : BeginFrame(dt)
    \/ Animate(FALSE)
    \/ AnimationLoopCallback(FALSE)
    \/ \E b \in BeatValues : Tween(b)
    \/ KeySpace

SpecReplay == Init /\ [][NextReplay]_vars

NextBeat ==
    \/ DOMContentLoaded("ok")
    \/ onHeartLoaded("mesh")
    \/ BeginFrame(FRAME_SKIP_THRESHOLD + 1)
    \/ Animate(FALSE)
    \/ AnimationLoopCallback(FALSE)
    \/ \E b \in BeatValues : Tween(b)
    \/ KeySpace
    \/ KeyM
    \/ KeyR
    \/ \E w \in Windows : ResizeEvent(w)
    \/ ResizeTimeout
    \/ ClockTick(RESIZE_DEBOUNCE_WAIT)

SpecBeat == Init /\ [][NextBeat]_vars

NextOverlay ==
    \/ DOMContentLoaded("ok")
    \/ KeyH
    \/ HelpButtonClick
    \/ OverlayClick
    \/ onTap
    \/ HideTimeout
    \/ AriaLiveTimeout
    \/ \E dt \in OverlayGaps : OverlayTick(dt)

SpecOverlay == InitOverlay /\ [][NextOverlay]_vars

NextWorker ==
    \/ WorkerInstall
    \/ CachesOpenSettled
    \/ \E net \in NetworkOutcomes : AddAllSettled(net)
    \/ WorkerActivate
    \/ CachesKeysSettled
    \/ \E name \in deleting : CacheDeleteSettled(name)
    \/ \E request \in Requests : WorkerFetch(request)
    \/ \E p \in BagToSet(pending) : CacheMatchSettled(p)
    \/ \E p \in BagToSet(pending), net \in NetworkOutcomes :
           NetworkFetchSettled(p, net)

SpecWorker == InitWorker /\ [][NextWorker]_vars

(***************************************************************************)
(* Properties.                                                             *)
(***************************************************************************)
\* A step that ends a display refresh.
EndsFrame == ~Idle /\ Idle'

\* C1: once the model has loaded, a display refresh runs at most one render
\* pass: the requestAnimationFrame loop of startAnimation and the
\* setAnimationLoop loop of the Space handler never drive render() together,
\* and no two requestAnimationFrame loops are alive side by side (part_001).
C1_SingleRenderLoop ==
    (IsMain /\ heart) =>
        /\ passes <= 1
        /\ ~(isAnimating /\ animLoop /\ rafQueue + rafRun > 0)
        /\ (isAnimating => rafQueue + rafRun <= 1)

\* C2: when render() throws, isAnimating becomes false and the error display
\* shows the reload action, and from then on no frame of this page begins a
\* render pass, whichever loop called render and whatever key is pressed
\* (part_001).
C2_RenderErrorStopsForGood ==
    [][IsMain =>
        /\ (~renderFailed /\ renderFailed') =>
               (~isAnimating' /\ errorShown' /\ errorAction' = "reload")
        /\ renderFailed => passes' <= passes]_vars

\* C3: after Space stops the animation of a loaded heart, and until the next
\* Space press, no render pass begins, no animate callback is scheduled anew
\* and no setAnimationLoop callback is installed; after Space switches the
\* animation on, every refresh of the visible page that ends without an
\* exception has rendered (part_001).
C3_SpaceToggles ==
    [][IsMain =>
        /\ (lastSpace = "off" /\ lastSpace' = "off") =>
               (passes' <= passes /\ rafQueue' <= rafQueue /\ ~animLoop')
        /\ (lastSpace = "on" /\ EndsFrame /\ heart /\ ~hidden /\ ~cleaned
               /\ ~renderFailed')
               => passes' >= 1]_vars

\* C4: a failed model load is retryable (part_001): when the loader reports
\* an error the error display is shown and its button carries the retry
\* action; every further loadHeartModel call is started by that button and
\* puts one more load in flight; and when a load is answered with a mesh the
\* heart is set, sparks exist, the animation is started and the error
\* display is hidden.  This holds after every number of failures the bound
\* on loadHeartModel calls allows.
C4_FailedLoadIsRetryable ==
    [][IsMain =>
        /\ diag'.err = "modelLoad" =>
               (errorShown' /\ errorAction' = "retry")
        /\ loadCalls' > loadCalls /\ loadCalls >= 1 =>
               (errorShown /\ errorAction = "retry"
                /\ loadCalls' = loadCalls + 1
                /\ loadsInFlight' = loadsInFlight + 1)
        /\ (loadsInFlight' < loadsInFlight /\ diag'.err = "none") =>
               (heart' /\ spikes' > 0 /\ isAnimating'
                /\ rafQueue' = rafQueue + 1 /\ ~errorShown')]_vars

\* Two loads failed one after the other, the third, started by the retry
\* button, succeeded: the heart is up, the animation runs, the error display
\* is hidden.
C4_Witness ==
    /\ IsMain
    /\ loadCalls = 3
    /\ loadsInFlight = 0
    /\ initRuns = 1
    /\ heart
    /\ isAnimating
    /\ spikes > 0
    /\ ~errorShown

\* C5: initParticles runs at most once in the life of a HeartAnimation, and
\* the spark set it made stays in place until cleanup() (part_001).
C5_SparksCreatedOnce ==
    IsMain =>
        /\ initRuns <= 1
        /\ (initRuns >= 1 /\ ~cleaned) => spikes = 1

\* C6: a frame of a hidden page begins no render pass and changes neither
\* isAnimating, the sparks, the heart nor the scheduled loops of a running
\* animation; and a refresh of the visible page, while the animation is on
\* and the heart is loaded, renders (or is dropped by the frame limiter of
\* startAnimation) without any other action.  Both scripts.
C6_HiddenFrameSkipsRender ==
    [][/\ (hidden /\ (~Idle \/ ~Idle')) =>
              /\ passes' <= passes
              /\ UNCHANGED <<isAnimating, spikes, heart, animLoop>>
              /\ isAnimating => rafQueue' + rafRun' = rafQueue + rafRun
       /\ (~hidden /\ EndsFrame /\ isAnimating' /\ heart /\ ~renderFailed') =>
              \/ passes' >= 1
              \/ now - lastRenderTime' < FRAME_SKIP_THRESHOLD]_vars

\* C7: resize handling is debounced (both scripts): onWindowResize never
\* runs while a resize event younger than the wait exists, it runs at most
\* once per burst and exactly the wait after the burst's last event, a burst
\* that has not yet been answered has its run scheduled, and a new burst
\* begins only after the one before was answered once.
C7_ResizeDebounced ==
    [][/\ (lastRunAt' # lastRunAt \/ resizeRuns' > resizeRuns) =>
              lastRunAt' = lastResize' + RESIZE_DEBOUNCE_WAIT
       /\ resizeRuns' <= 1
       /\ (lastResize' # -1 /\ resizeRuns' = 0) =>
              resizeTimer' = lastResize' + RESIZE_DEBOUNCE_WAIT
       /\ (lastResize' # lastResize /\ lastResize # -1 /\ StartsBurst) =>
              resizeRuns = 1]_vars

\* C8: after cleanup() every GPU resource the animation created is disposed,
\* the audio is gone, and nothing the animation scheduled is left: no beat
\* timeline, no animation-frame callback, no setAnimationLoop callback, no
\* pending timeout (part_001).
C8_CleanupReleasesAll ==
    (IsMain /\ cleaned) =>
        /\ created \subseteq disposed
        /\ audio = "none"
        /\ ~timeline
        /\ rafQueue + rafRun = 0
        /\ ~animLoop
        /\ timers = EmptyBag

\* C9: an audio failure (the audio element's error event, a rejected play()
\* of playAudio, of the M or R key, or of the prompt) leaves isAnimating and
\* the animation loops as they are and does not touch the error display
\* (part_001).
C9_AudioFailuresDegrade ==
    [][(IsMain /\ diag'.err \in {"audioLoad", "playRejected"}) =>
            UNCHANGED <<isAnimating, animLoop, rafQueue, errorShown,
                        errorAction>>]_vars

\* C10: each of the error outcomes the program handles writes at least one
\* console entry: initialization failure, WebGL probe exception, model-load
\* failure, heart-setup failure, render exception, audio failure, rejected
\* audio play, service-worker registration failure (part_001).
C10_ErrorOutcomes ==
    {"init", "webglProbe", "modelLoad", "heartSetup", "render", "audioLoad",
     "playRejected", "swRegister"}

C10_EveryErrorIsLogged ==
    (IsMain /\ diag.err \in C10_ErrorOutcomes) => diag.logs >= 1

\* A step in which render() ran updateParticles and updateHeartGeometry.
RenderStep == passes' > passes

\* C11: a render pass whose updateHeartGeometry reads beat = 0 leaves every
\* vertex of the heart's position buffer at (0,0,0), whatever the origin
\* vertex, the noise and the frame time (both scripts).
C11_RestingHeartCollapses ==
    [][(RenderStep /\ beatRead'.heart = 0) =>
           /\ Len(vs') = Len(originHeart)
           /\ \A i \in 1..Len(vs') : vs'[i] = <<0, 0, 0>>]_vars

\* A pass at a positive frame time has read beat = 0 and the buffer of a mesh
\* whose vertices are off the origin holds zeros only.
C11_Witness ==
    /\ passes >= 1
    /\ heartKey[1] = 0
    /\ heartKey[2] > 0
    /\ Len(vs) = Len(Mesh)
    /\ \A i \in 1..Len(vs) : vs[i] = <<0, 0, 0>> /\ originHeart[i] # <<0, 0, 0>>

\* C12: the displacement of the heart is history-free (part_001): the buffer
\* a render pass leaves is the one updateHeartGeometry computes from
\* originHeart, the beat and the time alone, starting from any buffer; a
\* pass with the beat and time of the pass before it leaves the buffer as it
\* was; a pass that reads beat = 0 leaves zeros whatever the passes before
\* it read.
C12_DisplacementHistoryFree ==
    [][(IsMain /\ RenderStep) =>
           /\ vs' = updateHeartGeometry(
                        [i \in 1..Len(originHeart) |-> <<0, 0, 0>>],
                        originHeart, heartKey'[1], heartKey'[2])
           /\ (heartKey'[1] = heartKey[1] /\ heartKey'[2] = heartKey[2]) =>
                  vs' = vs
           /\ heartKey'[1] = 0 =>
                  \A i \in 1..Len(vs') : vs'[i] = <<0, 0, 0>>]_vars

\* Passes have read a nonzero beat; later two passes of one refresh read
\* beat = 0 at the same time, and the buffer holds zeros.
C12_Witness ==
    /\ IsMain
    /\ passes = 2
    /\ heartKey[1] = 0
    /\ heartKey[3] = 0
    /\ heartKey[4] = heartKey[2]
    /\ \E m \in memo : m[1] # 0
    /\ Len(vs) = Len(Mesh)
    /\ \A i \in 1..Len(vs) : vs[i] = <<0, 0, 0>>

\* C13: a render pass (updateParticles, SparkPoint.update,
\* updateHeartGeometry) leaves originHeart and every spark's pos, color and
\* rand as they were; they stay what setupSampler and the SparkPoint
\* constructor made them (both scripts).
C13_CreationDataUntouched ==
    [][RenderStep =>
           /\ originHeart' = originHeart
           /\ originHeart' = world.origin
           /\ Len(sparks') = Len(sparks)
           /\ \A i \in 1..Len(sparks) :
                  /\ sparks'[i].pos = sparks[i].pos
                  /\ sparks'[i].color = sparks[i].color
                  /\ sparks'[i].rand = sparks[i].rand
                  /\ sparks'[i].pos = world.samples[i].pos
                  /\ sparks'[i].color = world.samples[i].color
                  /\ sparks'[i].rand = world.samples[i].rand]_vars

\* Passes have run for two different beats: the near and far positions and
\* the vertex buffer are displaced, the creation-time data is in place.
C13_Witness ==
    /\ Cardinality(memo) >= 2
    /\ Len(sparks) = PARTICLE_COUNT
    /\ \A i \in 1..Len(sparks) :
           /\ sparks[i].one # Null
           /\ sparks[i].one # Scale(sparks[i].pos, SCALAR_DEN)
           /\ sparks[i].two # Scale(sparks[i].pos, SCALAR_DEN)
           /\ sparks[i].pos = world.samples[i].pos
    /\ originHeart = world.origin
    /\ \E i \in 1..Len(vs) : vs[i] # Scale(originHeart[i], SCALAR_DEN)

\* C14: for the sparks of a page (fixed pos, rand and noise function) the
\* near and far positions SparkPoint.update computes depend on the beat
\* alone: whenever a pass reads a beat that an earlier pass has read, at
\* whatever time and after whatever beats and positions in between, every
\* spark's near and far positions are the ones computed the first time
\* (both scripts).
C14_LayersDependOnBeatAlone ==
    (sparks # <<>> /\ beatRead.sparks # {}) =>
        \A m \in memo : m[1] \in beatRead.sparks => m[2] = Layers(sparks)

\* A pass reads a beat first read at an earlier time, the pass before it
\* having read another beat: the positions are those of the first time.
C14_Witness ==
    /\ sparks # <<>>
    /\ heartKey[3] # -1
    /\ heartKey[3] # heartKey[1]
    /\ beatRead.sparks = {heartKey[1]}
    /\ \E m \in memo :
           /\ m[1] = heartKey[1]
           /\ m[3] < heartKey[4]
           /\ m[2] = Layers(sparks)
    /\ \E m \in memo : m[1] = heartKey[3] /\ m[2] # Layers(sparks)

\* C15: the depth-window test is monotonic in the jitter: for the near z of
\* every spark a pass has produced and all jitters r1 <= r2, the near test
\* (and the far test) that passes with r1 passes with r2; and of two sparks
\* with the same near z, the one with the larger jitter has every layer
\* appended that the other has (part_001).
C15_Jitters == {0, 6, 7, 10, 20, PARTICLE_RANDOM_FACTOR - 1}

C15_WindowMonotonicInJitter ==
    (IsMain /\ sparks # <<>> /\ Len(shown) = Len(sparks)) =>
        /\ \A i \in 1..Len(sparks) : \A k \in {1, 2} :
               \A r1, r2 \in C15_Jitters :
                   (r1 <= r2 /\ LayerVisible(r1, k, sparks[i].one[3])) =>
                       LayerVisible(r2, k, sparks[i].one[3])
        /\ \A i, j \in 1..Len(sparks) :
               (sparks[i].one[3] = sparks[j].one[3]
                /\ sparks[i].rand <= sparks[j].rand) =>
                   /\ shown[i][1] => shown[j][1]
                   /\ shown[i][2] => shown[j][2]

\* Two sparks at the same near z: the one with the smaller jitter fails the
\* near test, the one with the larger jitter passes it.
C15_Witness ==
    /\ IsMain
    /\ Len(sparks) = PARTICLE_COUNT
    /\ Len(shown) = Len(sparks)
    /\ \E i, j \in 1..Len(sparks) :
           /\ sparks[i].one[3] = sparks[j].one[3]
           /\ sparks[i].rand < sparks[j].rand
           /\ ~shown[i][1]
           /\ shown[j][1]

\* C16: the position buffer and the color buffer given to the geometry have
\* the same length, a multiple of 3 and at most 2 * PARTICLE_COUNT * 3, and
\* no write of updateParticles has fallen outside the PARTICLE_COUNT * 6
\* entries of this.positions and this.colors (both scripts; the pre-sized
\* arrays are part_001's).
C16_BuffersWithinCapacity ==
    /\ Len(submitted.position) = Len(submitted.color)
    /\ Len(submitted.position) % 3 = 0
    /\ Len(submitted.position) <= 2 * PARTICLE_COUNT * 3
    /\ ~oob

\* Every spark has both layers appended: the buffers of part_001 are full.
C16_Witness ==
    /\ IsMain
    /\ passes >= 1
    /\ Len(shown) = PARTICLE_COUNT
    /\ \A i \in 1..Len(shown) : shown[i][1] /\ shown[i][2]
    /\ Len(submitted.position) = PARTICLE_COUNT * 6
    /\ Len(submitted.color) = PARTICLE_COUNT * 6
    /\ Len(positions) = PARTICLE_COUNT * 6
    /\ Len(colors) = PARTICLE_COUNT * 6
    /\ ~oob

\* A step in which onWindowResize ran.
ResizeStep == lastRunAt' # lastRunAt \/ resizeRuns' > resizeRuns

\* C17: onWindowResize sets the camera aspect to the window's width over its
\* height, the renderer size to the window's width and height and the pixel
\* ratio to the device pixel ratio, at most 2; it leaves the sparks, the
\* position and color buffers, originHeart, the vertex buffer, the beat and
\* isAnimating unchanged (both scripts).
C17_ResizeTouchesViewportOnly ==
    [][ResizeStep =>
           /\ viewport'.aspect = <<win'.width, win'.height>>
           /\ viewport'.size = <<win'.width, win'.height>>
           /\ viewport'.pixelRatio <= 2
           /\ viewport'.pixelRatio = (IF win'.dpr <= 2 THEN win'.dpr ELSE 2)
           /\ UNCHANGED <<sparks, positions, colors, submitted, originHeart,
                          vs, beat, isAnimating>>]_vars

\* After render passes have filled the buffers, a window of device pixel
\* ratio 3 has been answered by the debounced onWindowResize: the pixel ratio
\* is capped, the buffers are still filled.
C17_Witness ==
    /\ IsMain
    /\ resizeRuns >= 1
    /\ lastRunAt # -1
    /\ win.dpr = 3
    /\ viewport = [aspect |-> <<16, 9>>, size |-> <<16, 9>>, pixelRatio |-> 2]
    /\ Len(sparks) = PARTICLE_COUNT
    /\ Len(submitted.position) > 0
    /\ Len(vs) = Len(Mesh)
    /\ isAnimating

\* C18: after a pass, a spark's near entry is in the buffers exactly when
\* |one.z| < MAX_Z * RATE_Z + rand and its far entry exactly when
\* |one.z| < MAX_Z * RATE_Z + 2 * rand, both strict; the far position's z
\* takes no part in either; the buffers hold one entry per test passed and
\* none for a test failed; a z on the edge of a window fails the test (both
\* scripts).
C18_WindowOnNearZ ==
    (sparks # <<>> /\ Len(shown) = Len(sparks)) =>
        /\ \A i \in 1..Len(sparks) :
               LET z == sparks[i].one[3]
                   w1 == (MAX_Z_RATE_Z + sparks[i].rand) * SCALAR_DEN
                   w2 == (MAX_Z_RATE_Z + 2 * sparks[i].rand) * SCALAR_DEN
               IN  /\ shown[i][1] <=> (z < w1 /\ -z < w1)
                   /\ shown[i][2] <=> (z < w2 /\ -z < w2)
        /\ Len(submitted.position) =
               3 * Cardinality({e \in (1..Len(shown)) \X {1, 2} :
                                   shown[e[1]][e[2]]})
        \* the test at the edges of the window of each spark's jitter
        /\ \A i \in 1..Len(sparks) : \A k \in {1, 2} :
               LET w == (MAX_Z_RATE_Z + k * sparks[i].rand) * SCALAR_DEN
               IN  /\ ~LayerVisible(sparks[i].rand, k, w)
                   /\ ~LayerVisible(sparks[i].rand, k, -w)
                   /\ LayerVisible(sparks[i].rand, k, w - 1)
                   /\ LayerVisible(sparks[i].rand, k, 1 - w)

\* A spark whose far position lies outside the far window has its far entry
\* appended, its near z being inside; another spark fails a test.
C18_Witness ==
    /\ Len(sparks) = PARTICLE_COUNT
    /\ Len(shown) = Len(sparks)
    /\ \E i \in 1..Len(sparks) :
           /\ shown[i][2]
           /\ ~LayerVisible(sparks[i].rand, 2, sparks[i].two[3])
    /\ \E j \in 1..Len(sparks) : ~shown[j][1]

\* C19: the buffers submitted by a pass hold exactly the entries of that
\* pass: for each spark in order, its near entry if appended, then its far
\* entry if appended, each with the spark's color, and nothing after them,
\* whatever an earlier pass left in this.positions and this.colors
\* (part_001).
C19_SubmittedIsThisFrame ==
    (IsMain /\ sparks # <<>> /\ Len(shown) = Len(sparks)) =>
        LET entries == {e \in (1..Len(shown)) \X {1, 2} : shown[e[1]][e[2]]}
            before(e) == {d \in entries :
                             d[1] < e[1] \/ (d[1] = e[1] /\ d[2] < e[2])}
            at(e) == 3 * Cardinality(before(e))
            layer(e) == IF e[2] = 1 THEN sparks[e[1]].one ELSE sparks[e[1]].two
        IN  /\ Len(submitted.position) = 3 * Cardinality(entries)
            /\ Len(submitted.color) = 3 * Cardinality(entries)
            /\ \A e \in entries : \A c \in 1..3 :
                   /\ submitted.position[at(e) + c] = layer(e)[c]
                   /\ submitted.color[at(e) + c] = sparks[e[1]].color[c]

\* A pass has appended fewer entries than an earlier one: this.positions
\* still holds the earlier pass's values after the submitted prefix.
C19_Witness ==
    /\ IsMain
    /\ Len(shown) = PARTICLE_COUNT
    /\ Len(submitted.position) > 0
    /\ Len(submitted.position) < Len(positions)
    /\ \E n \in (Len(submitted.position) + 1)..Len(positions) :
           positions[n] # 0

\* A step in which onKeyDown ran.
KeyStep == diag'.key # "none"

\* C20: beat.a has a single writer (part_001): it changes only in
\* setupAnimation (reduced motion) and in a step of the tween setupAnimation
\* started, a step that does nothing else; render, updateParticles,
\* SparkPoint.update, updateHeartGeometry, onWindowResize and onKeyDown
\* leave it as it is; and in a render pass every spark and every vertex is
\* computed from the value the beat had when the pass began.
C20_BeatSingleWriter ==
    [][IsMain =>
        /\ beat' # beat =>
               \/ /\ phase = "boot"
                  /\ phase' = "ready"
                  /\ reducedMotion
                  /\ beat' = ReducedMotionBeat
               \/ /\ timeline
                  /\ ~reducedMotion
                  /\ beat' \in BeatValues
                  /\ UNCHANGED <<passes, isAnimating, lastSpace, audio, plays,
                                 viewport, resizeRuns, lastRunAt, sparks, vs,
                                 positions, colors, submitted>>
        /\ RenderStep =>
               /\ beat' = beat
               /\ beatRead'.sparks = {beat}
               /\ beatRead'.heart = beat
        /\ ResizeStep => beat' = beat
        /\ KeyStep => beat' = beat]_vars

\* The tween has moved the beat between two passes; the last pass computed
\* every spark and the heart from the beat as it is; the Space and M keys
\* were pressed and onWindowResize has run.
C20_Witness ==
    /\ IsMain
    /\ timeline
    /\ beat # 0
    /\ beatRead = [sparks |-> {beat}, heart |-> beat]
    /\ heartKey[3] \notin {-1, beat}
    /\ lastSpace # "none"
    /\ BagIn(Play("key", 0), plays)
    /\ resizeRuns >= 1

\* C21: a render pass writes, for every origin vertex (x, y, z), the
\* position (x * s, y * s, z * s) with the one factor
\* s = (noise + 1) * (NOISE_SCALE * NOISE_AMPLITUDE) * beat on all three
\* axes, in both scripts.
C21_UniformScaleWithNoiseScale ==
    [][RenderStep =>
           /\ Len(vs') = Len(originHeart)
           /\ \A i \in 1..Len(originHeart) :
                  LET s == HeartNoise(world.seed, originHeart[i], heartKey'[2])
                               * NOISE_SCALE_AMPLITUDE * heartKey'[1]
                  IN  vs'[i] = <<originHeart[i][1] * s, originHeart[i][2] * s,
                                 originHeart[i][3] * s>>]_vars

\* C22: with reduced motion (part_001) setupAnimation sets beat.a to
\* 0.3 * BEAT_MAX_VALUE and starts no timeline, and the beat has that value
\* in every state after the start and in every render pass; without reduced
\* motion the beat, and the value every pass reads, is within
\* [0, BEAT_MAX_VALUE].
C22_BeatHeldOrBounded ==
    IF IsMain /\ reducedMotion
    THEN phase = "ready" =>
             /\ beat = ReducedMotionBeat
             /\ ~timeline
             /\ passes > 0 =>
                    /\ beatRead = [sparks |-> {ReducedMotionBeat},
                                   heart  |-> ReducedMotionBeat]
                    /\ heartKey[1] = ReducedMotionBeat
                    /\ heartKey[3] \in {-1, ReducedMotionBeat}
    ELSE /\ beat \in 0..BEAT_MAX_VALUE
         /\ passes > 0 =>
                /\ beatRead.sparks \subseteq 0..BEAT_MAX_VALUE
                /\ beatRead.heart \in 0..BEAT_MAX_VALUE

\* Reduced motion: two render passes at different frame times have both read
\* the constant reduced beat, and no timeline runs.
C22_Witness ==
    /\ IsMain
    /\ reducedMotion
    /\ ~timeline
    /\ beat = ReducedMotionBeat
    /\ heartKey[1] = ReducedMotionBeat
    /\ heartKey[3] = ReducedMotionBeat
    /\ heartKey[2] # heartKey[4]

\* The entries of the sparks before spark i in the last pass, in numbers.
C23_Offset(i) ==
    3 * Cardinality({e \in (1..(i - 1)) \X {1, 2} : shown[e[1]][e[2]]})

\* C23: the jitter of a spark is never negative, so the near window lies
\* inside the far window: in every pass a spark whose near entry is appended
\* has its far entry appended too; a spark contributes nothing, its far
\* entry alone, or its near entry followed by its far entry.
C23_WindowsNested ==
    (sparks # <<>> /\ Len(shown) = Len(sparks)) =>
        \A i \in 1..Len(sparks) :
            LET off  == C23_Offset(i)
                at(n) == SubSeq(submitted.position, off + n + 1, off + n + 3)
            IN  /\ shown[i][1] => shown[i][2]
                /\ shown[i] = <<TRUE, TRUE>> =>
                       /\ at(0) = sparks[i].one
                       /\ at(3) = sparks[i].two
                /\ shown[i] = <<FALSE, TRUE>> => at(0) = sparks[i].two

\* One pass in which a spark has its near entry and then its far entry
\* appended and another spark its far entry alone.
C23_Witness ==
    /\ Len(sparks) = PARTICLE_COUNT
    /\ Len(shown) = Len(sparks)
    /\ \E i \in 1..Len(sparks) : shown[i] = <<TRUE, TRUE>>
    /\ \E j \in 1..Len(sparks) : shown[j] = <<FALSE, TRUE>>

\* A step in which one call of startAnimation's animate ran.
AnimateStep == rafRun' = rafRun - 1

\* C25: in startAnimation's requestAnimationFrame loop a call of animate
\* less than FRAME_SKIP_THRESHOLD after the last rendered frame renders
\* nothing, leaves lastRenderTime as it is and requests the next frame;
\* lastRenderTime moves only in a call whose render() returned without
\* throwing, and then to the frame's timestamp; a call made while
\* isAnimating is true and in which nothing is thrown requests exactly one
\* frame, any other call none.
C25_FrameSkipAndReschedule ==
    [][AnimateStep =>
        /\ (isAnimating /\ now - lastRenderTime < FRAME_SKIP_THRESHOLD) =>
               /\ passes' = passes
               /\ UNCHANGED renderVars
               /\ lastRenderTime' = lastRenderTime
               /\ rafQueue' = rafQueue + 1
        /\ lastRenderTime' # lastRenderTime =>
               /\ isAnimating
               /\ now - lastRenderTime >= FRAME_SKIP_THRESHOLD
               /\ isAnimating'
               /\ diag' = NoDiag
               /\ lastRenderTime' = now
        /\ IF isAnimating /\ isAnimating'
           THEN rafQueue' = rafQueue + 1
           ELSE rafQueue' = rafQueue]_vars

\* A frame has been rendered and the frame after it, less than
\* FRAME_SKIP_THRESHOLD later, was skipped: nothing rendered in this
\* refresh, lastRenderTime still that of the rendered frame, one frame
\* requested.
C25_Witness ==
    /\ IsMain
    /\ isAnimating
    /\ heart
    /\ ~animLoop
    /\ rafRun = 0
    /\ rafQueue = 1
    /\ passes = 0
    /\ lastRenderTime > 0
    /\ now > lastRenderTime
    /\ now - lastRenderTime < FRAME_SKIP_THRESHOLD

\* C24: once the overlay has been shown (H key, help button or tap) it stays
\* shown until the next hide action: no hide timeout started by an earlier
\* hide action sets hidden after a later show action.
C24_ShownUntilNextHide ==
    lastControls = "show" => ~controlsHidden

\* C26: in a fetch event, a request that matches a cache entry is answered
\* with that entry and no network request is made for it; a request with no
\* match is answered from the network; no step of a fetch event adds,
\* replaces or removes a cache entry or a cache; and once the activate event
\* has completed the CacheStorage holds the cache named CACHE_NAME and no
\* other.
C26_FetchCacheFirstReadOnly ==
    [][/\ (fetches' # fetches \/ pending' # pending) =>
           /\ caches' = caches
           /\ \A p \in BagToSet(pending) \cup BagToSet(pending') :
                  LET request == p.request
                      hits == {e \in UNION {caches[i].entries : i \in 1..Len(caches)} :
                                  request.method = "GET" /\ e.url = request.url}
                  IN  /\ request \in Requests
                      /\ p.stage = "network" => hits = {}
                      /\ CopiesIn(p, pending') < CopiesIn(p, pending) =>
                             \/ /\ p.stage = "match"
                                /\ hits # {}
                                /\ response'.from = "cache"
                                /\ response'.request = request
                                /\ \E e \in hits : response'.body = e.body
                                /\ netRequests' = netRequests
                             \/ /\ p.stage = "match"
                                /\ hits = {}
                                /\ response' = response
                                /\ netRequests' = netRequests + 1
                                /\ pending' = (pending (-) Copies(p, 1))
                                     (+) Copies([p EXCEPT !.stage = "network"], 1)
                             \/ /\ p.stage = "network"
                                /\ response'.from \in {"network", "error"}
                                /\ response'.request = request
                                /\ response'.from = "network" =>
                                       response'.body = "new"
                                /\ netRequests' = netRequests
           /\ fetches' # fetches =>
                  /\ netRequests' = netRequests
                  /\ response' = response
       /\ workerState' = "activated" =>
              /\ Len(caches') = 1
              /\ caches'[1].name = CACHE_NAME]_vars

\* The worker has deleted an earlier version's cache in activate; since then
\* an event whose request matched no entry waits for the network, and a
\* later event, a GET of a url install stored, has been answered from the
\* cache meanwhile; the cache is as install left it.
C26_Witness ==
    /\ workerState = "activated"
    /\ deleted # {}
    /\ fetches >= 2
    /\ netRequests = 1
    /\ \E p \in BagToSet(pending) :
           p.stage = "network" /\ p.request.url \notin urlsToCache
    /\ response.from = "cache"
    /\ response.request.url \in urlsToCache
    /\ Len(caches) = 1
    /\ {e.url : e \in caches[1].entries} = urlsToCache

====
